---------------------------- MODULE Spec2Model ----------------------------
(***************************************************************************)
(* State synchronisation and aggregation layer of the DALI2 IoT           *)
(* integration: the refresh coordinator (coordinator.py), the group       *)
(* aggregation (_extract_groups_from_devices), the per-entity optimistic  *)
(* overlay and the read / command paths of the device light and the       *)
(* group light (light.py).                                                 *)
(*                                                                         *)
(* Python dicts are functions whose DOMAIN is the set of keys, so that     *)
(* `k in d` is  k \in DOMAIN d  and d.get(k, default) is a test on the     *)
(* domain.  A read that returns None returns << >>, and a read that        *)
(* returns the value v returns <<v>>.                                      *)
(*                                                                         *)
(* Time is time.time() in whole seconds.  The entity caches used only by   *)
(* extra_state_attributes (_groups, _members, _features of the entities)   *)
(* are not part of the model.                                              *)
(***************************************************************************)
EXTENDS Integers, Sequences, FiniteSets, TLC

\* light.py:138 and light.py:385: `elapsed < 5.0`
OverlayWindow == 5

\* Bounds of the model
MaxTicks == 5
MaxDevices == 3
MaxPending == 1
MaxServiceCalls == 1

StartTime == OverlayWindow
MaxTime == StartTime + MaxTicks

None == << >>
Some(v) == <<v>>

EmptyDict == [k \in {} |-> TRUE]

\* d[k] = v of a Python dict
DictSet(d, k, v) == [x \in (DOMAIN d) \cup {k} |-> IF x = k THEN v ELSE d[x]]

(***************************************************************************)
(* Devices as the controller reports them (GET /devices).                  *)
(***************************************************************************)
Feat(s) == [status |-> s]

\* a device whose JSON carries an "address"
DevA(i, a, gs, fs) ==
    [id |-> i, name |-> <<"lamp", i>>, address |-> a, groups |-> gs,
     features |-> fs]

\* a device whose JSON carries no "address"
DevN(i, gs, fs) ==
    [id |-> i, name |-> <<"lamp", i>>, groups |-> gs, features |-> fs]

SwOnly(on) == [switchable |-> Feat(on)]
SwDim(on, d) == [switchable |-> Feat(on), dimmable |-> Feat(d)]

\* the device lists a poll of the running system may return
PollPool ==
    { DevN(1, <<7>>, SwDim(TRUE, 50)),
      DevA(2, 1, <<7>>, SwOnly(FALSE)) }

RECURSIVE ListsUpTo(_, _)
ListsUpTo(pool, n) ==
    IF n = 0 THEN { << >> }
    ELSE LET shorter == ListsUpTo(pool, n - 1)
         IN  shorter \cup { Append(l, d) : l \in shorter, d \in pool }

\* the controller assigns every device its own id
UniqueIds(l) == \A i, j \in 1..Len(l) : l[i].id = l[j].id => i = j

PollLists == { l \in ListsUpTo(PollPool, MaxDevices) : UniqueIds(l) }


(***************************************************************************)
(* State                                                                   *)
(***************************************************************************)
VARIABLES
    now,          \* time.time()
    devices,      \* Dali2IotCoordinator._devices
    groups,       \* Dali2IotCoordinator._groups
    fetching,     \* a device-list fetch of the coordinator is in flight
    opt_state,    \* entity -> _optimistic_state
    opt_ts,       \* entity -> _optimistic_timestamp
    ha_state,     \* entity -> the state last written by async_write_ha_state
    pending,      \* entity -> the control calls awaiting the controller's answer,
                  \* each with the entity's snapshot-derived on/off at its issue
                  \* and the call (api, id, data) handed to the Remote Client
    written,      \* history: entity -> overlay key -> time its value was written
    operated,     \* the entities the service calls of this behaviour address
    last_update_success,  \* DataUpdateCoordinator.last_update_success
    svc,          \* the group-membership service calls in progress
    svc_result,   \* how the last finished call of a Remote Client operation by a
                  \* service handler ended
    hass_data,    \* hass.data[DOMAIN]: config entry id -> the device list of its
                  \* coordinator when the entry was set up (None: not set up);
                  \* the behaviours of one controller leave it empty
    discovery     \* Dali2IotDiscovery.discover: where the call stands, whether
                  \* _socket is open, the `devices` collected, the datagrams
                  \* received, the seconds the current recvfrom has waited
                  \* and the seconds since the broadcast

vars == <<now, devices, groups, fetching, opt_state, opt_ts, ha_state,
          pending, written, operated, hass_data, discovery,
          last_update_success, svc, svc_result>>

\* the identifiers of the config entries, each for a controller of its own
MaxEntries == 3
EntryIds == 1..MaxEntries

\* hass.data[DOMAIN] before a config entry is set up
NoEntries == [n \in EntryIds |-> None]

\* a Dali2IotDiscovery after __init__: discover was not called
NoDiscovery ==
    [pc |-> "idle", socket |-> FALSE, devices |-> << >>, received |-> 0,
     waited |-> 0, elapsed |-> 0]

\* the light entities async_setup_entry created
DeviceLights == { <<"device", 1>> }
GroupLights == { <<"group", 7>> }
Entities == DeviceLights \cup GroupLights
EntityId(e) == e[2]

(***************************************************************************)
(* coordinator.py                                                          *)
(***************************************************************************)
\* Dali2IotCoordinator.get_device: the index of the first device with that
\* id, 0 for None
first_match(matches) ==
    IF matches = {} THEN 0 ELSE CHOOSE i \in matches : \A j \in matches : i <= j

get_device(devs, device_id) ==
    first_match({ i \in 1..Len(devs) : devs[i].id = device_id })

\* Dali2IotCoordinator.get_group: `group_id in _groups`, then _groups[group_id]
has_group(grps, group_id) == group_id \in DOMAIN grps

\* device.get("address", device_id)
device_address(device) ==
    IF "address" \in DOMAIN device THEN device.address ELSE device.id

\* variant of the inner loop that keeps only the latest member of a group
add_member_replaces(grps, device, group_id) ==
    LET g0 == IF group_id \in DOMAIN grps
              THEN grps[group_id]
              ELSE [id |-> group_id, name |-> <<"DALI Group", group_id>>,
                    members |-> << >>, features |-> EmptyDict]
        member == [id |-> device_address(device), name |-> device.name,
                   features |-> device.features]
        feats == [f \in (DOMAIN g0.features) \cup (DOMAIN device.features) |->
                    IF f \in DOMAIN g0.features THEN g0.features[f]
                    ELSE device.features[f]]
    IN  DictSet(grps, group_id,
                [g0 EXCEPT !.members = <<member>>, !.features = feats])

\* variant of the inner loop in which every device overwrites the feature
\* values the group already holds
add_member_overwrites(grps, device, group_id) ==
    LET g0 == IF group_id \in DOMAIN grps
              THEN grps[group_id]
              ELSE [id |-> group_id, name |-> <<"DALI Group", group_id>>,
                    members |-> << >>, features |-> EmptyDict]
        member == [id |-> device_address(device), name |-> device.name,
                   features |-> device.features]
        feats == [f \in (DOMAIN g0.features) \cup (DOMAIN device.features) |->
                    IF f \in DOMAIN device.features THEN device.features[f]
                    ELSE g0.features[f]]
    IN  DictSet(grps, group_id,
                [g0 EXCEPT !.members = Append(@, member), !.features = feats])

\* one pass of the inner loop of _extract_groups_from_devices
add_member(grps, device, group_id) ==
    LET g0 == IF group_id \in DOMAIN grps
              THEN grps[group_id]
              ELSE [id |-> group_id, name |-> <<"DALI Group", group_id>>,
                    members |-> << >>, features |-> EmptyDict]
        member == [id |-> device_address(device), name |-> device.name,
                   features |-> device.features]
        feats == [f \in (DOMAIN g0.features) \cup (DOMAIN device.features) |->
                    IF f \in DOMAIN g0.features THEN g0.features[f]
                    ELSE device.features[f]]
    IN  DictSet(grps, group_id,
                [g0 EXCEPT !.members = Append(@, member), !.features = feats])

\* `for group_id in device_groups`, from the k-th group on
RECURSIVE add_device(_, _, _)
add_device(grps, device, k) ==
    IF k > Len(device.groups) THEN grps
    ELSE add_device(add_member(grps, device, device.groups[k]), device, k + 1)

\* `for device in devices`, from the i-th device on
RECURSIVE extract_from(_, _, _)
extract_from(grps, devs, i) ==
    IF i > Len(devs) THEN grps
    ELSE extract_from(add_device(grps, devs[i], 1), devs, i + 1)

\* variant of the aggregation that starts from a map holding an empty
\* record for the groups 7 and 8
extract_groups_prefilled(devs) ==
    extract_from([g \in {7, 8} |->
                     [id |-> g, name |-> <<"DALI Group", g>>,
                      members |-> << >>, features |-> EmptyDict]],
                 devs, 1)

\* Dali2IotCoordinator._extract_groups_from_devices
extract_groups_from_devices(devs) == extract_from(EmptyDict, devs, 1)

(***************************************************************************)
(* Conversions of the read path                                            *)
(***************************************************************************)
\* int(dim_value * 2.55) for a whole dim_value in 0..100.  2.55 is not a
\* binary fraction: the double product 100 * 2.55 is 254.99999999999997, so
\* int() yields 254; for every other whole value int() yields the exact floor.
to_external(dim_value) ==
    IF dim_value = 100 THEN 254 ELSE (dim_value * 255) \div 100

\* the whole brightness values x for which the double product
\* (x / 2.55) * 2.55 falls just below x
RoundsBelow ==
    {23, 41, 46, 82, 87, 92, 97, 164, 165, 174, 175, 184, 185, 194, 195,
     205, 215, 225, 235, 245, 255}

\* int(dim_value * 2.55) for a dim_value the integration wrote itself, the
\* fraction x / 2.55 held as [num |-> x * 100, den |-> 255]: the exact
\* product is x, and int() yields x - 1 where the double product falls below
to_external_written(q) ==
    LET exact == (q.num * 255) \div (q.den * 100)
    IN  IF exact \in RoundsBelow THEN exact - 1 ELSE exact

\* int(channel * 255) for a channel of 0.0 or 1.0
to_channel(c) == c * 255

\* (int(r * 255), int(g * 255), int(b * 255))
to_rgb(color) == <<to_channel(color[1]), to_channel(color[2]), to_channel(color[3])>>

(***************************************************************************)
(* light.py: the read path.  The operators take the snapshot (devs, grps)  *)
(* and the overlay (overlay, ts) at time t they read.                      *)
(***************************************************************************)
\* variant of the validity test that still trusts the overlay at exactly
\* 5 seconds
state_valid_inclusive(ts, t) == t - ts <= OverlayWindow

\* _is_optimistic_state_valid (both classes): elapsed < 5.0
state_valid(ts, t) == t - ts < OverlayWindow

\* features.get("switchable", {}).get("status", False) of a device
switchable_status(device) ==
    IF "switchable" \in DOMAIN device.features
    THEN device.features["switchable"].status
    ELSE FALSE

\* `device and "features" in device`, then the switchable status, of the
\* device at index i (0: get_device returned None)
device_is_on(devs, i) == IF i # 0 THEN switchable_status(devs[i]) ELSE FALSE

\* `device and "features" in device and name in features`
exposes(devs, i, name) == i # 0 /\ name \in DOMAIN devs[i].features

\* int(features["dimmable"].get("status", 0) * 2.55) of the device at index i
device_brightness(devs, i) == to_external(devs[i].features["dimmable"].status)

\* Dali2IotLight.is_on below the overlay check
light_canonical_is_on(devs, device_id) ==
    device_is_on(devs, get_device(devs, device_id))

\* Dali2IotLight.brightness below the overlay check
light_canonical_brightness(devs, device_id) ==
    IF exposes(devs, get_device(devs, device_id), "dimmable")
    THEN Some(device_brightness(devs, get_device(devs, device_id)))
    ELSE None

\* the members the loops of the group reads run over:
\* `for member in current_group.get("members", [])`, none when get_group
\* returns None
member_count(grps, group_id) ==
    IF has_group(grps, group_id) THEN Len(grps[group_id].members) ELSE 0

\* `device = self._coordinator.get_device(member["id"])` for the k-th member
member_device(devs, grps, group_id, k) ==
    get_device(devs, grps[group_id].members[k].id)

\* the members, by position, whose looked-up device exposes the feature
members_exposing(devs, grps, group_id, name) ==
    { k \in 1..member_count(grps, group_id) :
        exposes(devs, member_device(devs, grps, group_id, k), name) }

\* Dali2IotGroupLight.is_on below the overlay check
group_canonical_is_on(devs, grps, group_id) ==
    \E k \in 1..member_count(grps, group_id) :
        device_is_on(devs, member_device(devs, grps, group_id, k))

\* sum(brightness_values) over the members from the k-th on
RECURSIVE sum_brightness(_, _, _, _)
sum_brightness(devs, grps, group_id, k) ==
    IF k > member_count(grps, group_id) THEN 0
    ELSE (IF k \in members_exposing(devs, grps, group_id, "dimmable")
          THEN device_brightness(devs, member_device(devs, grps, group_id, k))
          ELSE 0)
         + sum_brightness(devs, grps, group_id, k + 1)

\* Dali2IotGroupLight.brightness below the overlay check:
\* int(sum(brightness_values) / len(brightness_values)), None for no value
group_canonical_brightness(devs, grps, group_id) ==
    IF members_exposing(devs, grps, group_id, "dimmable") # {}
    THEN Some(sum_brightness(devs, grps, group_id, 1)
                \div Cardinality(members_exposing(devs, grps, group_id, "dimmable")))
    ELSE None

\* the status of the feature of the first member whose device exposes it
first_status(devs, grps, group_id, name) ==
    devs[member_device(devs, grps, group_id,
            first_match(members_exposing(devs, grps, group_id, name)))]
        .features[name].status

\* Dali2IotGroupLight.rgb_color
group_rgb_color(devs, grps, group_id) ==
    IF members_exposing(devs, grps, group_id, "colorRGB") # {}
    THEN Some(to_rgb(first_status(devs, grps, group_id, "colorRGB")))
    ELSE None

\* Dali2IotGroupLight.color_temp
group_color_temp(devs, grps, group_id) ==
    IF members_exposing(devs, grps, group_id, "colorKelvin") # {}
    THEN Some(first_status(devs, grps, group_id, "colorKelvin"))
    ELSE None

\* Dali2IotLight.rgb_color
light_rgb_color(devs, device_id) ==
    IF exposes(devs, get_device(devs, device_id), "colorRGB")
    THEN Some(to_rgb(devs[get_device(devs, device_id)].features["colorRGB"].status))
    ELSE None

\* Dali2IotLight.color_temp
light_color_temp(devs, device_id) ==
    IF exposes(devs, get_device(devs, device_id), "colorKelvin")
    THEN Some(devs[get_device(devs, device_id)].features["colorKelvin"].status)
    ELSE None

\* rgb_color of Dali2IotLight and of Dali2IotGroupLight: neither looks at
\* the overlay
read_rgb_color(devs, grps, e) ==
    IF e \in DeviceLights THEN light_rgb_color(devs, EntityId(e))
    ELSE group_rgb_color(devs, grps, EntityId(e))

\* color_temp of Dali2IotLight and of Dali2IotGroupLight: neither looks at
\* the overlay
read_color_temp(devs, grps, e) ==
    IF e \in DeviceLights THEN light_color_temp(devs, EntityId(e))
    ELSE group_color_temp(devs, grps, EntityId(e))

\* the on/off value the entity derives from the snapshot
snapshot_is_on(devs, grps, e) ==
    IF e \in DeviceLights THEN light_canonical_is_on(devs, EntityId(e))
    ELSE group_canonical_is_on(devs, grps, EntityId(e))

\* the brightness the entity derives from the snapshot
snapshot_brightness(devs, grps, e) ==
    IF e \in DeviceLights THEN light_canonical_brightness(devs, EntityId(e))
    ELSE group_canonical_brightness(devs, grps, EntityId(e))

\* is_on of Dali2IotLight and of Dali2IotGroupLight
read_is_on(devs, grps, overlay, ts, t, e) ==
    IF "switchable" \in DOMAIN overlay /\ state_valid(ts, t)
    THEN overlay["switchable"]
    ELSE snapshot_is_on(devs, grps, e)

\* brightness of Dali2IotLight and of Dali2IotGroupLight
read_brightness(devs, grps, overlay, ts, t, e) ==
    IF "brightness" \in DOMAIN overlay /\ state_valid(ts, t)
    THEN Some(overlay["brightness"])
    ELSE snapshot_brightness(devs, grps, e)

\* what async_write_ha_state publishes of the entity
published(devs, grps, overlay, ts, t, e) ==
    [is_on |-> read_is_on(devs, grps, overlay, ts, t, e),
     brightness |-> read_brightness(devs, grps, overlay, ts, t, e)]

\* the reads in the current state
is_optimistic_state_valid(e) == state_valid(opt_ts[e], now)
canonical_is_on(e) == snapshot_is_on(devices, groups, e)
canonical_brightness(e) == snapshot_brightness(devices, groups, e)
is_on(e) == read_is_on(devices, groups, opt_state[e], opt_ts[e], now, e)
brightness(e) == read_brightness(devices, groups, opt_state[e], opt_ts[e], now, e)
rgb_color(e) == read_rgb_color(devices, groups, e)
color_temp(e) == read_color_temp(devices, groups, e)
state_of(e) == published(devices, groups, opt_state[e], opt_ts[e], now, e)

(***************************************************************************)
(* light.py: the command path                                              *)
(***************************************************************************)
\* the keyword arguments of the light.turn_on / light.turn_off service calls
BrightnessArgs == {128}
KwValues(k) ==
    CASE k = "brightness" -> BrightnessArgs
      [] k = "transition" -> {1}

KwargsOver(keys) ==
    UNION { { kw \in [S -> UNION { KwValues(k) : k \in S }] :
                \A k \in S : kw[k] \in KwValues(k) } : S \in SUBSET keys }

TurnOnKwargs == KwargsOver({"brightness", "transition"})
TurnOffKwargs == KwargsOver({"transition"})

\* the keyword arguments of a light.turn_on call with every combination of
\* brightness, rgb_color, color_temp_kelvin and transition
RgbArg == <<0, 0, 255>>
KelvinArg == 3000
Opt(present, k, v) == IF present THEN k :> v ELSE EmptyDict
ColourTurnOnKwargs ==
    { Opt(b, "brightness", x) @@ Opt(c, "rgb_color", RgbArg)
        @@ Opt(k, "color_temp_kelvin", KelvinArg) @@ Opt(t, "transition", 1) :
        b \in BOOLEAN, c \in BOOLEAN, k \in BOOLEAN, t \in BOOLEAN,
        x \in BrightnessArgs }

\* brightness_only of async_turn_on
brightness_only(kwargs) ==
    /\ "brightness" \in DOMAIN kwargs
    /\ Cardinality({ k \in DOMAIN kwargs : k # "transition" }) = 1

\* variant of the payload keys that asserts `switchable` on every turn-on
turn_on_data_keys_always_switchable(current_is_on, kwargs) ==
    {"switchable"}
    \cup (IF "brightness" \in DOMAIN kwargs THEN {"dimmable"} ELSE {})
    \cup (IF "rgb_color" \in DOMAIN kwargs THEN {"colorRGB"} ELSE {})
    \cup (IF "color_temp_kelvin" \in DOMAIN kwargs THEN {"colorKelvin"} ELSE {})

turn_on_data_keys_only_when_off(current_is_on, kwargs) ==
    (IF ~current_is_on THEN {"switchable"} ELSE {})
    \cup (IF "brightness" \in DOMAIN kwargs THEN {"dimmable"} ELSE {})
    \cup (IF "rgb_color" \in DOMAIN kwargs THEN {"colorRGB"} ELSE {})
    \cup (IF "color_temp_kelvin" \in DOMAIN kwargs THEN {"colorKelvin"} ELSE {})

\* the keys of `data` that async_turn_on builds
turn_on_data_keys(current_is_on, kwargs) ==
    (IF ~current_is_on \/ ~brightness_only(kwargs) THEN {"switchable"} ELSE {})
    \cup (IF "brightness" \in DOMAIN kwargs THEN {"dimmable"} ELSE {})
    \cup (IF "rgb_color" \in DOMAIN kwargs THEN {"colorRGB"} ELSE {})
    \cup (IF "color_temp_kelvin" \in DOMAIN kwargs THEN {"colorKelvin"} ELSE {})

\* x / 2.55 and c / 255: the quotient as the fraction num / den
to_internal(x) == [num |-> x * 100, den |-> 255]
channel_to_internal(c) == [num |-> c, den |-> 255]

\* variant of `data` that always carries every feature, a feature that was
\* not requested with a default value
turn_on_data_sends_all(current_is_on, kwargs) ==
    [k \in {"switchable", "dimmable", "colorRGB", "colorKelvin"} |->
        CASE k = "switchable" -> TRUE
          [] k = "dimmable" ->
                to_internal(IF "brightness" \in DOMAIN kwargs
                            THEN kwargs["brightness"] ELSE 255)
          [] k = "colorRGB" ->
                LET c == IF "rgb_color" \in DOMAIN kwargs
                         THEN kwargs["rgb_color"] ELSE <<255, 255, 255>>
                IN  [r |-> channel_to_internal(c[1]),
                     g |-> channel_to_internal(c[2]),
                     b |-> channel_to_internal(c[3])]
          [] k = "colorKelvin" ->
                IF "color_temp_kelvin" \in DOMAIN kwargs
                THEN kwargs["color_temp_kelvin"] ELSE 4000]

\* `data` of async_turn_on
turn_on_data(current_is_on, kwargs) ==
    [k \in turn_on_data_keys(current_is_on, kwargs) |->
        CASE k = "switchable" -> TRUE
          [] k = "dimmable" -> to_internal(kwargs["brightness"])
          [] k = "colorRGB" ->
                [r |-> channel_to_internal(kwargs["rgb_color"][1]),
                 g |-> channel_to_internal(kwargs["rgb_color"][2]),
                 b |-> channel_to_internal(kwargs["rgb_color"][3])]
          [] k = "colorKelvin" -> kwargs["color_temp_kelvin"]]

\* `data` of async_turn_off
turn_off_data == [switchable |-> FALSE]

\* the overlay after the optimistic update of async_turn_on
turn_on_overlay(old, kwargs) ==
    LET sw == DictSet(old, "switchable", TRUE)
    IN  IF "brightness" \in DOMAIN kwargs
        THEN DictSet(sw, "brightness", kwargs["brightness"])
        ELSE sw

\* the overlay after the optimistic update of async_turn_off
turn_off_overlay(old) == DictSet(old, "switchable", FALSE)

\* history of an overlay write: the keys in `keys` are written now, the
\* other keys keep the time of their write
Stamp(old, overlay, keys) ==
    [k \in DOMAIN overlay |-> IF k \in keys THEN now ELSE old[k]]

RemoveAt(s, i) == SubSeq(s, 1, i - 1) \o SubSeq(s, i + 1, Len(s))

\* with a transition the control call is async_control_device_with_fade /
\* async_control_group_with_fade, which Dali2IotDevice (device.py) does not
\* define: the attribute lookup raises before anything is awaited
call_raises(kwargs) == "transition" \in DOMAIN kwargs

\* the Remote Client call of a command of the entity:
\* async_control_device(self._device_id, data) of a device light,
\* async_control_group(self._group_id, data) of a group light
control_call(e, data) ==
    [api |-> IF e \in DeviceLights THEN "async_control_device"
             ELSE "async_control_group",
     id |-> EntityId(e),
     data |-> data]

\* the optimistic update, the state write and the control call of a command;
\* when the call raises at once, the handler's `except Exception` clears the
\* overlay and writes the state in the same step;
\* at most `max` control calls of an entity are awaited at a time
IssueCommandUpTo(max, e, overlay, keys, kwargs, data) ==
    LET raises == call_raises(kwargs)
        sends == data # EmptyDict
        awaits == sends /\ ~raises
    IN  /\ e \in operated
        /\ awaits => Len(pending[e]) < max
        /\ opt_ts' = [opt_ts EXCEPT ![e] = now]
        /\ opt_state' = [opt_state EXCEPT ![e] =
                            IF sends /\ raises THEN EmptyDict ELSE overlay]
        /\ written' = [written EXCEPT ![e] =
                            IF sends /\ raises THEN EmptyDict
                            ELSE Stamp(written[e], overlay, keys)]
        /\ pending' = [pending EXCEPT ![e] =
                            IF awaits
                            THEN Append(@, [pre |-> canonical_is_on(e),
                                            call |-> control_call(e, data)])
                            ELSE @]
        /\ UNCHANGED <<now, devices, groups, fetching,
                       operated, hass_data, discovery,
                   last_update_success, svc, svc_result>>
        /\ ha_state' = [ha_state EXCEPT ![e] =
                            published(devices, groups, opt_state'[e], now, now, e)]

\* variant of the command that writes the state before it updates the
\* overlay
IssueCommand_publishes_first(e, overlay, keys, kwargs, data) ==
    LET raises == call_raises(kwargs)
        sends == data # EmptyDict
        awaits == sends /\ ~raises
    IN  /\ e \in operated
        /\ awaits => Len(pending[e]) < MaxPending
        /\ opt_ts' = [opt_ts EXCEPT ![e] = now]
        /\ opt_state' = [opt_state EXCEPT ![e] =
                            IF sends /\ raises THEN EmptyDict ELSE overlay]
        /\ written' = [written EXCEPT ![e] =
                            IF sends /\ raises THEN EmptyDict
                            ELSE Stamp(written[e], overlay, keys)]
        /\ pending' = [pending EXCEPT ![e] =
                            IF awaits
                            THEN Append(@, [pre |-> canonical_is_on(e),
                                            call |-> control_call(e, data)])
                            ELSE @]
        /\ UNCHANGED <<now, devices, groups, fetching,
                       operated, hass_data, discovery,
                   last_update_success, svc, svc_result>>
        /\ ha_state' = [ha_state EXCEPT ![e] =
                            published(devices, groups, opt_state[e], opt_ts[e],
                                      now, e)]

\* variant of the command in which the entities share one overlay and one
\* timestamp
IssueCommand_shared_overlay(e, overlay, keys, kwargs, data) ==
    LET raises == call_raises(kwargs)
        sends == data # EmptyDict
        awaits == sends /\ ~raises
    IN  /\ e \in operated
        /\ awaits => Len(pending[e]) < MaxPending
        /\ opt_ts' = [x \in Entities |-> now]
        /\ opt_state' = [x \in Entities |->
                            IF sends /\ raises THEN EmptyDict ELSE overlay]
        /\ written' = [written EXCEPT ![e] =
                            IF sends /\ raises THEN EmptyDict
                            ELSE Stamp(written[e], overlay, keys)]
        /\ pending' = [pending EXCEPT ![e] =
                            IF awaits
                            THEN Append(@, [pre |-> canonical_is_on(e),
                                            call |-> control_call(e, data)])
                            ELSE @]
        /\ UNCHANGED <<now, devices, groups, fetching,
                       operated, hass_data, discovery,
                   last_update_success, svc, svc_result>>
        /\ ha_state' = [ha_state EXCEPT ![e] =
                            published(devices, groups, opt_state'[e], now, now, e)]

\* a command of the running integration
IssueCommand(e, overlay, keys, kwargs, data) ==
    IssueCommandUpTo(MaxPending, e, overlay, keys, kwargs, data)

\* Dali2IotLight.async_turn_on / Dali2IotGroupLight.async_turn_on, up to the
\* await of the control call
TurnOn(e, kwargs) ==
    LET current_is_on == is_on(e)
    IN  IssueCommand(e, turn_on_overlay(opt_state[e], kwargs),
                     {"switchable"} \cup (DOMAIN kwargs \cap {"brightness"}),
                     kwargs, turn_on_data(current_is_on, kwargs))

\* Dali2IotLight.async_turn_off / Dali2IotGroupLight.async_turn_off, up to the
\* await of the control call
TurnOff(e, kwargs) ==
    IssueCommand(e, turn_off_overlay(opt_state[e]), {"switchable"},
                 kwargs, turn_off_data)

\* variant of the success branch that returns without asking the coordinator
\* for a refresh
CommandAccepted_no_refresh(e, i) ==
    /\ i \in 1..Len(pending[e])
    /\ pending' = [pending EXCEPT ![e] = RemoveAt(@, i)]
    /\ UNCHANGED <<now, devices, groups, fetching, opt_state, opt_ts, ha_state,
                   written, operated, hass_data, discovery,
                   last_update_success, svc, svc_result>>

\* the control call returned: `await self._coordinator.async_request_refresh()`
CommandAccepted(e, i) ==
    /\ i \in 1..Len(pending[e])
    /\ pending' = [pending EXCEPT ![e] = RemoveAt(@, i)]
    /\ fetching' = TRUE
    /\ UNCHANGED <<now, devices, groups, opt_state, opt_ts, ha_state,
                   written, operated, hass_data, discovery,
                   last_update_success, svc, svc_result>>

\* variant of the failure branch that leaves the overlay in place and only
\* writes the state
CommandFailed_keeps_overlay(e, i) ==
    /\ i \in 1..Len(pending[e])
    /\ pending' = [pending EXCEPT ![e] = RemoveAt(@, i)]
    /\ UNCHANGED <<now, devices, groups, fetching, opt_state, opt_ts,
                   written, operated, hass_data, discovery,
                   last_update_success, svc, svc_result>>
    /\ ha_state' = [ha_state EXCEPT ![e] =
                        published(devices, groups, opt_state[e], opt_ts[e],
                                  now, e)]

\* the control call raised: the `except Exception` branch
CommandFailed(e, i) ==
    /\ i \in 1..Len(pending[e])
    /\ pending' = [pending EXCEPT ![e] = RemoveAt(@, i)]
    /\ opt_state' = [opt_state EXCEPT ![e] = EmptyDict]
    /\ written' = [written EXCEPT ![e] = EmptyDict]
    /\ UNCHANGED <<now, devices, groups, fetching, opt_ts,
                   operated, hass_data, discovery,
                   last_update_success, svc, svc_result>>
    /\ ha_state' = [ha_state EXCEPT ![e] =
                        published(devices, groups, EmptyDict, opt_ts[e], now, e)]

(***************************************************************************)
(* The refresh cycle                                                       *)
(***************************************************************************)
\* variant of _on_coordinator_update that drops the overlay on every
\* notification, expired or not
on_coordinator_update_always_clears(e) == EmptyDict

\* the overlay after _on_coordinator_update (both classes)
on_coordinator_update(e) ==
    IF ~is_optimistic_state_valid(e) THEN EmptyDict ELSE opt_state[e]

\* the coordinator calls every listener with the snapshot (devs, grps)
\* published: _on_coordinator_update clears the expired overlay and writes
\* the state
NotifyListeners(devs, grps) ==
    /\ opt_state' = [e \in Entities |-> on_coordinator_update(e)]
    /\ written' = [e \in Entities |->
                      IF on_coordinator_update(e) = EmptyDict THEN EmptyDict
                      ELSE written[e]]
    /\ ha_state' = [e \in Entities |->
                      published(devs, grps, on_coordinator_update(e),
                                opt_ts[e], now, e)]

\* the update interval elapsed: the coordinator starts _async_update_data
ScheduledRefresh ==
    /\ ~fetching
    /\ fetching' = TRUE
    /\ UNCHANGED <<now, devices, groups, opt_state, opt_ts, ha_state,
                   pending, written, operated, hass_data, discovery,
                   last_update_success, svc, svc_result>>

\* the devices of the previous snapshot whose id the fetched list lacks
RECURSIVE missing_from(_, _)
missing_from(old, fetched) ==
    IF old = << >> THEN << >>
    ELSE (IF get_device(fetched, Head(old).id) = 0 THEN <<Head(old)>>
          ELSE << >>)
         \o missing_from(Tail(old), fetched)

\* variant of the successful fetch that merges the fetched list into the
\* previous one: a device the fetched list lacks is kept
FetchSucceeded_merges(fetched) ==
    /\ fetching
    /\ fetching' = FALSE
    /\ devices' = fetched \o missing_from(devices, fetched)
    /\ groups' = extract_groups_from_devices(devices')
    /\ last_update_success' = TRUE
    /\ UNCHANGED <<now, opt_ts, pending,
                   operated, hass_data, discovery, svc, svc_result>>
    /\ NotifyListeners(devices', groups')

\* variant of the successful fetch that stores the device list and keeps the
\* group map of the previous poll
FetchSucceeded_keeps_groups(fetched) ==
    /\ fetching
    /\ fetching' = FALSE
    /\ devices' = fetched
    /\ groups' = groups
    /\ last_update_success' = TRUE
    /\ UNCHANGED <<now, opt_ts, pending, operated, hass_data, discovery, svc,
                 svc_result>>
    /\ NotifyListeners(fetched, groups)

\* variant of the successful fetch that calls the listeners before it
\* stores the fetched data
FetchSucceeded_notifies_first(fetched) ==
    /\ fetching
    /\ fetching' = FALSE
    /\ devices' = fetched
    /\ groups' = extract_groups_from_devices(fetched)
    /\ last_update_success' = TRUE
    /\ UNCHANGED <<now, opt_ts, pending, operated, hass_data, discovery, svc,
                 svc_result>>
    /\ NotifyListeners(devices, groups)

\* _async_update_data after async_get_devices returned `fetched`
FetchSucceeded(fetched) ==
    /\ fetching
    /\ fetching' = FALSE
    /\ devices' = fetched
    /\ groups' = extract_groups_from_devices(fetched)
    /\ last_update_success' = TRUE
    /\ UNCHANGED <<now, opt_ts, pending, operated, hass_data, discovery, svc,
                 svc_result>>
    /\ NotifyListeners(fetched, extract_groups_from_devices(fetched))

\* variant of the failed fetch that publishes an empty device list and an
\* empty group map
FetchFailed_drops_snapshot(notify) ==
    /\ fetching
    /\ fetching' = FALSE
    /\ last_update_success' = FALSE
    /\ devices' = << >>
    /\ groups' = EmptyDict
    /\ UNCHANGED <<now, opt_ts, pending, operated, hass_data, discovery, svc,
                 svc_result>>
    /\ IF notify THEN NotifyListeners(<< >>, EmptyDict)
       ELSE UNCHANGED <<opt_state, written, ha_state>>

\* async_get_devices raised Dali2IotConnectionError: _async_update_data
\* assigns nothing; the coordinator notifies its listeners or not
FetchFailed(notify) ==
    /\ fetching
    /\ fetching' = FALSE
    /\ last_update_success' = FALSE
    /\ UNCHANGED <<now, devices, groups, opt_ts, pending,
                   operated, hass_data, discovery, svc,
                 svc_result>>
    /\ IF notify THEN NotifyListeners(devices, groups)
       ELSE UNCHANGED <<opt_state, written, ha_state>>

\* a second passes
Tick ==
    /\ now < MaxTime
    /\ now' = now + 1
    /\ UNCHANGED <<devices, groups, fetching, opt_state, opt_ts, ha_state,
                   pending, written, operated, hass_data, discovery,
                   last_update_success, svc, svc_result>>

(***************************************************************************)
(* __init__.py / device.py: the group-membership services                  *)
(***************************************************************************)
\* the device and group ids the service calls name
ServiceDeviceIds == {1, 3}
ServiceGroupIds == {7, 8}

\* `group_id in current_groups`
in_groups(current_groups, group_id) ==
    \E k \in 1..Len(current_groups) : current_groups[k] = group_id

\* [g for g in current_groups if g != group_id]
RECURSIVE without_group(_, _)
without_group(current_groups, group_id) ==
    IF current_groups = << >> THEN << >>
    ELSE (IF Head(current_groups) = group_id THEN << >>
          ELSE <<Head(current_groups)>>)
         \o without_group(Tail(current_groups), group_id)

\* how a call of async_add_device_to_group / async_remove_device_from_group
\* ended for the handler: `error` is the message of the Dali2IotConnectionError
\* it raised ("" when it returned True), `put` the groups of the PUT
\* /device/{id} it made (None when it made none)
Result(c, error, put) ==
    [op |-> c.op, device_id |-> c.device_id, group_id |-> c.group_id,
     error |-> error, put |-> put]

\* async_add_to_group / async_remove_from_group up to the first await:
\* async_add_device_to_group / async_remove_device_from_group start with
\* `devices = await self.async_get_devices()`, a GET /devices of their own
\* at most `max` calls are running at a time
ServiceCallUpTo(max, op, device_id, group_id) ==
    /\ Len(svc) < max
    /\ svc' = Append(svc, [op |-> op, device_id |-> device_id,
                           group_id |-> group_id, pc |-> "get_devices",
                           groups |-> << >>])
    /\ UNCHANGED <<now, devices, groups, fetching, opt_state, opt_ts,
                   ha_state, pending, written,
                   operated, hass_data, discovery, last_update_success,
                   svc_result>>

\* a service call of the running integration
ServiceCall(op, device_id, group_id) ==
    ServiceCallUpTo(MaxServiceCalls, op, device_id, group_id)

\* variant of the services that sends the update without looking whether
\* the membership changes
ServiceDevicesFetched_always_updates(k, fetched) ==
    /\ k \in 1..Len(svc)
    /\ svc[k].pc = "get_devices"
    /\ LET c == svc[k]
           idx == get_device(fetched, c.device_id)
           current == fetched[idx].groups
           new_groups == IF c.op = "add" THEN Append(current, c.group_id)
                         ELSE without_group(current, c.group_id)
       IN  IF idx = 0
           THEN /\ svc' = RemoveAt(svc, k)
                /\ svc_result' = Result(c, "Device not found", None)
           ELSE /\ svc' = [svc EXCEPT ![k].pc = "update_device_groups",
                                      ![k].groups = new_groups]
                /\ UNCHANGED svc_result
    /\ UNCHANGED <<now, devices, groups, fetching, opt_state, opt_ts,
                   ha_state, pending, written,
                   operated, hass_data, discovery, last_update_success>>

\* variant of the lookup that takes a device missing from the list for a
\* device in no group
ServiceDevicesFetched_assumes_no_groups(k, fetched) ==
    /\ k \in 1..Len(svc)
    /\ svc[k].pc = "get_devices"
    /\ LET c == svc[k]
           idx == get_device(fetched, c.device_id)
           current == IF idx = 0 THEN << >> ELSE fetched[idx].groups
           present == in_groups(current, c.group_id)
           new_groups == IF c.op = "add" THEN Append(current, c.group_id)
                         ELSE without_group(current, c.group_id)
       IN  IF (c.op = "add") = present
           THEN /\ svc' = RemoveAt(svc, k)
                /\ svc_result' = Result(c, "", None)
                /\ fetching' = TRUE
           ELSE /\ svc' = [svc EXCEPT ![k].pc = "update_device_groups",
                                      ![k].groups = new_groups]
                /\ UNCHANGED <<fetching, svc_result>>
    /\ UNCHANGED <<now, devices, groups, opt_state, opt_ts, ha_state,
                   pending, written,
                   operated, hass_data, discovery, last_update_success>>

\* the GET /devices of the service returned `fetched`: device not found
\* raises and the handler's `except Exception` logs the error, an unchanged
\* membership returns True and the handler requests a refresh, a changed
\* membership goes on to async_update_device_groups
ServiceDevicesFetched(k, fetched) ==
    /\ k \in 1..Len(svc)
    /\ svc[k].pc = "get_devices"
    /\ LET c == svc[k]
           idx == get_device(fetched, c.device_id)
           current == fetched[idx].groups
           present == in_groups(current, c.group_id)
           new_groups == IF c.op = "add" THEN Append(current, c.group_id)
                         ELSE without_group(current, c.group_id)
       IN  IF idx = 0
           THEN /\ svc' = RemoveAt(svc, k)
                /\ svc_result' = Result(c, "Device not found", None)
                /\ UNCHANGED fetching
           ELSE IF (c.op = "add") = present
                THEN /\ svc' = RemoveAt(svc, k)
                     /\ svc_result' = Result(c, "", None)
                     /\ fetching' = TRUE
                ELSE /\ svc' = [svc EXCEPT ![k].pc = "update_device_groups",
                                           ![k].groups = new_groups]
                     /\ UNCHANGED <<fetching, svc_result>>
    /\ UNCHANGED <<now, devices, groups, opt_state, opt_ts, ha_state,
                   pending, written,
                   operated, hass_data, discovery, last_update_success>>

\* the GET /devices of the service, or its PUT /device/{id}, failed: the
\* handler's `except Exception` logs the error
ServiceCallFailed(k) ==
    /\ k \in 1..Len(svc)
    /\ svc' = RemoveAt(svc, k)
    /\ svc_result' = Result(svc[k], "Connection failed",
                            IF svc[k].pc = "update_device_groups"
                            THEN Some(svc[k].groups) ELSE None)
    /\ UNCHANGED <<now, devices, groups, fetching, opt_state, opt_ts,
                   ha_state, pending, written,
                   operated, hass_data, discovery, last_update_success>>

\* the PUT /device/{id} of async_update_device_groups returned 200: the
\* handler requests a refresh
ServiceUpdateAccepted(k) ==
    /\ k \in 1..Len(svc)
    /\ svc[k].pc = "update_device_groups"
    /\ svc' = RemoveAt(svc, k)
    /\ svc_result' = Result(svc[k], "", Some(svc[k].groups))
    /\ fetching' = TRUE
    /\ UNCHANGED <<now, devices, groups, opt_state, opt_ts, ha_state,
                   pending, written,
                   operated, hass_data, discovery, last_update_success>>

\* the fade-time services: set_fade_time takes a device id, set_group_fade_time
\* a group id
FadeOps == {"set_fade_time", "set_group_fade_time"}
FadeTargets(op) == IF op = "set_fade_time" THEN ServiceDeviceIds ELSE ServiceGroupIds

\* vol.Range(min=0.0, max=60.0) of the two service schemas
MinFadeTime == 0
MaxFadeTime == 60

\* the fade times, in seconds, the services are called with
FadeTimes == {MinFadeTime - 1, MinFadeTime, 2, MaxFadeTime, MaxFadeTime + 1}

\* variant of the schema without the range
fade_time_valid_unbounded(fade_time) == TRUE

\* vol.All(vol.Coerce(float), vol.Range(min=0.0, max=60.0)): both ends are
\* in the range
fade_time_valid(fade_time) ==
    MinFadeTime <= fade_time /\ fade_time <= MaxFadeTime

\* how a set_fade_time / set_group_fade_time call ended: `put` is the Remote
\* Client call it made (None when it made none)
FadeResult(op, target_id, fade_time, error) ==
    [op |-> op, target_id |-> target_id, fade_time |-> fade_time,
     error |-> error, put |-> None]

\* a set_fade_time / set_group_fade_time call.  A fade time outside the range
\* fails the schema and the handler is not entered.  Inside the range the
\* handler runs `await coordinator.device.async_set_fade_time(...)` /
\* `async_set_group_fade_time(...)`: Dali2IotDevice (device.py) defines
\* neither, the attribute lookup raises before anything is awaited and the
\* handler's `except Exception` logs the error.
SetFadeTime(op, target_id, fade_time) ==
    /\ target_id \in FadeTargets(op)
    /\ svc_result' = FadeResult(op, target_id, fade_time,
                                IF fade_time_valid(fade_time)
                                THEN "AttributeError" ELSE "Invalid")
    /\ UNCHANGED <<now, devices, groups, fetching, opt_state, opt_ts,
                   ha_state, pending, written,
                   operated, hass_data, discovery, last_update_success,
                   svc>>

(***************************************************************************)
(* Specification of the running integration                                *)
(***************************************************************************)
\* the first refresh listed the device and the group of every entity
SetupLists ==
    { l \in PollLists :
        /\ \A e \in DeviceLights : get_device(l, EntityId(e)) # 0
        /\ \A e \in GroupLights :
              has_group(extract_groups_from_devices(l), EntityId(e)) }

Init ==
    /\ now = StartTime
    /\ devices \in SetupLists
    /\ groups = extract_groups_from_devices(devices)
    /\ fetching = FALSE
    /\ opt_state = [e \in Entities |-> EmptyDict]
    /\ opt_ts = [e \in Entities |-> 0]
    /\ pending = [e \in Entities |-> << >>]
    /\ written = [e \in Entities |-> EmptyDict]
    /\ ha_state = [e \in Entities |-> state_of(e)]
    /\ operated \in { {e} : e \in Entities }
    /\ hass_data = NoEntries
    /\ discovery = NoDiscovery
    /\ last_update_success = TRUE
    /\ svc = << >>
    /\ svc_result = << >>

Next ==
    \/ \E e \in Entities, kwargs \in TurnOnKwargs : TurnOn(e, kwargs)
    \/ \E e \in Entities, kwargs \in TurnOffKwargs : TurnOff(e, kwargs)
    \/ \E e \in Entities, i \in 1..MaxPending : CommandAccepted(e, i)
    \/ \E e \in Entities, i \in 1..MaxPending : CommandFailed(e, i)
    \/ ScheduledRefresh
    \/ \E fetched \in PollLists : FetchSucceeded(fetched)
    \/ \E notify \in BOOLEAN : FetchFailed(notify)
    \/ Tick

Spec == Init /\ [][Next]_vars

(***************************************************************************)
(* Specification of the aggregation and of the snapshot-derived reads:    *)
(* polls over a wider range of device lists, no command issued            *)
(***************************************************************************)
Rgb(on, c) == [switchable |-> Feat(on), colorRGB |-> Feat(c)]
Full(on, d, c, k) ==
    [switchable |-> Feat(on), dimmable |-> Feat(d), colorRGB |-> Feat(c),
     colorKelvin |-> Feat(k)]

AggPool ==
    { DevN(1, <<7>>, SwDim(FALSE, 50)),
      DevN(1, <<7, 8>>, SwOnly(TRUE)),
      DevN(1, << >>, [dimmable |-> Feat(100)]),
      DevA(2, 2, <<7>>, Full(TRUE, 100, <<1, 0, 0>>, 2700)),
      DevA(2, 2, <<8>>, Rgb(FALSE, <<1, 1, 0>>)),
      DevA(2, 5, <<7>>, SwDim(TRUE, 100)),
      DevN(3, <<8, 7>>, Full(FALSE, 0, <<0, 0, 1>>, 4000)),
      DevN(3, <<7>>, SwOnly(FALSE)),
      DevA(3, 1, <<7>>, Full(TRUE, 50, <<0, 1, 0>>, 6500)) }

AggLists == { l \in ListsUpTo(AggPool, MaxDevices) : UniqueIds(l) }

\* Dali2IotCoordinator.__init__: no device, no group
AggInit ==
    /\ now = StartTime
    /\ devices = << >>
    /\ groups = EmptyDict
    /\ fetching = FALSE
    /\ opt_state = [e \in Entities |-> EmptyDict]
    /\ opt_ts = [e \in Entities |-> 0]
    /\ pending = [e \in Entities |-> << >>]
    /\ written = [e \in Entities |-> EmptyDict]
    /\ ha_state = [e \in Entities |-> state_of(e)]
    /\ operated = {}
    /\ hass_data = NoEntries
    /\ discovery = NoDiscovery
    /\ last_update_success = TRUE
    /\ svc = << >>
    /\ svc_result = << >>

AggNext ==
    \/ ScheduledRefresh
    \/ \E fetched \in AggLists : FetchSucceeded(fetched)

SpecAgg == AggInit /\ [][AggNext]_vars

(***************************************************************************)
(* Specification of the command path: turn-on calls with every combination *)
(* of brightness, colour, colour temperature and transition, on lights     *)
(* whose device exposes every feature                                      *)
(***************************************************************************)
CmdPool ==
    { DevN(1, <<7>>, Full(TRUE, 50, <<1, 0, 0>>, 2700)),
      DevN(1, <<7>>, Full(FALSE, 50, <<1, 0, 0>>, 2700)) }

CmdLists == { l \in ListsUpTo(CmdPool, MaxDevices) : UniqueIds(l) }

CmdInit ==
    /\ now = StartTime
    /\ devices \in CmdLists \ { << >> }
    /\ groups = extract_groups_from_devices(devices)
    /\ fetching = FALSE
    /\ opt_state = [e \in Entities |-> EmptyDict]
    /\ opt_ts = [e \in Entities |-> 0]
    /\ pending = [e \in Entities |-> << >>]
    /\ written = [e \in Entities |-> EmptyDict]
    /\ ha_state = [e \in Entities |-> state_of(e)]
    /\ operated \in { {e} : e \in Entities }
    /\ hass_data = NoEntries
    /\ discovery = NoDiscovery
    /\ last_update_success = TRUE
    /\ svc = << >>
    /\ svc_result = << >>

CmdNext ==
    \/ \E e \in Entities, kwargs \in ColourTurnOnKwargs : TurnOn(e, kwargs)
    \/ \E e \in Entities, kwargs \in TurnOffKwargs : TurnOff(e, kwargs)
    \/ \E e \in Entities, i \in 1..MaxPending : CommandAccepted(e, i)
    \/ \E e \in Entities, i \in 1..MaxPending : CommandFailed(e, i)
    \/ ScheduledRefresh
    \/ \E fetched \in CmdLists : FetchSucceeded(fetched)

SpecCmd == CmdInit /\ [][CmdNext]_vars

(***************************************************************************)
(* Specification of the coordinator with the group-membership services     *)
(***************************************************************************)
SvcInit ==
    /\ now = StartTime
    /\ devices = << >>
    /\ groups = EmptyDict
    /\ fetching = FALSE
    /\ opt_state = [e \in Entities |-> EmptyDict]
    /\ opt_ts = [e \in Entities |-> 0]
    /\ pending = [e \in Entities |-> << >>]
    /\ written = [e \in Entities |-> EmptyDict]
    /\ ha_state = [e \in Entities |-> state_of(e)]
    /\ operated = {}
    /\ hass_data = NoEntries
    /\ discovery = NoDiscovery
    /\ last_update_success = TRUE
    /\ svc = << >>
    /\ svc_result = << >>

SvcNext ==
    \/ ScheduledRefresh
    \/ \E fetched \in PollLists : FetchSucceeded(fetched)
    \/ \E notify \in BOOLEAN : FetchFailed(notify)
    \/ \E op \in {"add", "remove"}, device_id \in ServiceDeviceIds,
          group_id \in ServiceGroupIds : ServiceCall(op, device_id, group_id)
    \/ \E k \in 1..MaxServiceCalls, fetched \in PollLists :
          ServiceDevicesFetched(k, fetched)
    \/ \E k \in 1..MaxServiceCalls : ServiceCallFailed(k)
    \/ \E k \in 1..MaxServiceCalls : ServiceUpdateAccepted(k)

SpecSvc == SvcInit /\ [][SvcNext]_vars

(***************************************************************************)
(* Specification of the coordinator with the fade-time services            *)
(***************************************************************************)
FadeNext ==
    \/ ScheduledRefresh
    \/ \E fetched \in PollLists : FetchSucceeded(fetched)
    \/ \E notify \in BOOLEAN : FetchFailed(notify)
    \/ \E op \in FadeOps, target_id \in ServiceDeviceIds \cup ServiceGroupIds,
          fade_time \in FadeTimes : SetFadeTime(op, target_id, fade_time)

SpecFade == SvcInit /\ [][FadeNext]_vars

(***************************************************************************)
(* Properties of the optimistic overlay (checked under Spec)               *)
(***************************************************************************)
\* the step is the optimistic update of a command of entity e
Writes(e) ==
    \/ \E kw \in TurnOnKwargs : TurnOn(e, kw)
    \/ \E kw \in TurnOffKwargs : TurnOff(e, kw)

\* the step handles the failure of an awaited control call of entity e
Fails(e) == \E i \in 1..MaxPending : CommandFailed(e, i)

\* the overlay's on/off value is still inside its window after the step
InWindowAfter(e) ==
    /\ "switchable" \in DOMAIN opt_state[e]
    /\ now' - opt_ts[e] < OverlayWindow

\* C1 as stated: from the write of a turn-on / turn-off on, and for as long
\* as less than 5 seconds have elapsed since that write, the on/off read
\* returns the commanded value, whatever the snapshot holds and whatever else
\* happens inside the window.
C1_PrecedenceUnconditional ==
    [][\A e \in Entities :
          /\ \A kw \in TurnOnKwargs : TurnOn(e, kw) => is_on(e)'
          /\ \A kw \in TurnOffKwargs : TurnOff(e, kw) => ~is_on(e)'
          /\ (InWindowAfter(e) /\ ~Writes(e))
                => is_on(e)' = opt_state[e]["switchable"]]_vars

\* C1 amended: from the write of a turn-on / turn-off on, and for as long as
\* less than 5 seconds have elapsed since that write and no control call of
\* the entity has failed since, the on/off read returns the commanded value,
\* whatever the snapshot holds, across every refresh and notification.
C1_OverlayPrecedence ==
    [][\A e \in Entities :
          /\ \A kw \in TurnOnKwargs :
                (TurnOn(e, kw) /\ ~call_raises(kw)) => is_on(e)'
          /\ \A kw \in TurnOffKwargs :
                (TurnOff(e, kw) /\ ~call_raises(kw)) => ~is_on(e)'
          /\ (InWindowAfter(e) /\ ~Writes(e) /\ ~Fails(e))
                => is_on(e)' = opt_state[e]["switchable"]]_vars

\* C1 witness: a command was accepted, the refresh it asked for has notified
\* the listeners, and the still valid overlay masks a snapshot that says the
\* opposite.
C1_Witness ==
    \E e \in Entities :
        /\ "switchable" \in DOMAIN opt_state[e]
        /\ is_optimistic_state_valid(e)
        /\ pending[e] = << >>
        /\ ~fetching
        /\ opt_state[e]["switchable"] # canonical_is_on(e)
        /\ is_on(e) = opt_state[e]["switchable"]

\* C2 as stated: when the control call of a turn-on / turn-off fails, the
\* overlay is empty right after the failure is handled and the displayed
\* on/off state is the snapshot-derived value the entity had before the
\* command.
C2_RevertsToPreCommandValue ==
    [][\A e \in Entities :
          /\ \A i \in 1..MaxPending :
                CommandFailed(e, i)
                    => /\ opt_state'[e] = EmptyDict
                       /\ ha_state'[e].is_on = pending[e][i].pre
          /\ \A kw \in TurnOnKwargs :
                (TurnOn(e, kw) /\ call_raises(kw))
                    => /\ opt_state'[e] = EmptyDict
                       /\ ha_state'[e].is_on = canonical_is_on(e)
          /\ \A kw \in TurnOffKwargs :
                (TurnOff(e, kw) /\ call_raises(kw))
                    => /\ opt_state'[e] = EmptyDict
                       /\ ha_state'[e].is_on = canonical_is_on(e)]_vars

\* C2 amended: when the control call of a turn-on / turn-off fails, the
\* overlay is empty right after the failure is handled and the displayed
\* on/off state is the snapshot-derived value of the current snapshot (the
\* pre-command value unless a refresh replaced the snapshot meanwhile).
C2_ClearOnFailure ==
    [][\A e \in Entities :
          /\ Fails(e)
                => /\ opt_state'[e] = EmptyDict
                   /\ ha_state'[e].is_on = canonical_is_on(e)'
          /\ \A kw \in TurnOnKwargs :
                (TurnOn(e, kw) /\ call_raises(kw))
                    => /\ opt_state'[e] = EmptyDict
                       /\ ha_state'[e].is_on = canonical_is_on(e)'
          /\ \A kw \in TurnOffKwargs :
                (TurnOff(e, kw) /\ call_raises(kw))
                    => /\ opt_state'[e] = EmptyDict
                       /\ ha_state'[e].is_on = canonical_is_on(e)']_vars

\* C2 witness: a command was issued less than 5 seconds ago and its overlay
\* is gone already, which only the failure branch does; the displayed state
\* is the snapshot-derived one.
C2_Witness ==
    \E e \in Entities :
        /\ opt_ts[e] >= StartTime
        /\ now - opt_ts[e] < OverlayWindow
        /\ opt_state[e] = EmptyDict
        /\ pending[e] = << >>
        /\ ha_state[e].is_on = canonical_is_on(e)

\* C3: after any command on an entity the overlay holds exactly the feature
\* values of that command; after a turn-off it carries no brightness, so the
\* brightness read comes from the snapshot.
C3_WriteReplacesEntry ==
    [][\A e \in Entities :
          /\ \A kw \in TurnOnKwargs :
                (TurnOn(e, kw) /\ ~call_raises(kw))
                    => opt_state'[e] = turn_on_overlay(EmptyDict, kw)
          /\ \A kw \in TurnOffKwargs :
                (TurnOff(e, kw) /\ ~call_raises(kw))
                    => /\ opt_state'[e] = turn_off_overlay(EmptyDict)
                       /\ brightness(e)' = canonical_brightness(e)']_vars

\* C4: every feature value a read returns from the overlay was written by a
\* command issued less than 5 seconds before the read.
C4_OverlayValuesAreRecent ==
    \A e \in Entities :
        \A k \in DOMAIN opt_state[e] :
            is_optimistic_state_valid(e) => now - written[e][k] < OverlayWindow

\* C5: once 5 seconds or more have elapsed since the entity's last overlay
\* write, the on/off and the brightness reads return the snapshot-derived
\* values, refresh or no refresh in between.
C5_BoundedStaleness ==
    \A e \in Entities :
        now - opt_ts[e] >= OverlayWindow
            => /\ is_on(e) = canonical_is_on(e)
               /\ brightness(e) = canonical_brightness(e)

\* C5 witness: exactly 5 seconds after a write the overlay is still stored
\* (no listener ran) and says the opposite of the snapshot.
C5_Witness ==
    \E e \in Entities :
        /\ "switchable" \in DOMAIN opt_state[e]
        /\ now - opt_ts[e] = OverlayWindow
        /\ opt_state[e]["switchable"] # canonical_is_on(e)

(***************************************************************************)
(* Properties of the aggregation and of the snapshot-derived group reads   *)
(* (checked under SpecAgg)                                                 *)
(***************************************************************************)
\* the positions, in the device list, of the devices whose `groups` holds g
Listing(devs, g) ==
    { i \in 1..Len(devs) : \E k \in 1..Len(devs[i].groups) : devs[i].groups[k] = g }

\* the position of the k-th device of Listing(devs, g), in device-list order
NthListing(devs, g, k) ==
    CHOOSE i \in Listing(devs, g) :
        Cardinality({ j \in Listing(devs, g) : j < i }) = k - 1

\* the devices of Listing(devs, g) that expose the feature
ListingExposing(devs, g, name) ==
    { i \in Listing(devs, g) : name \in DOMAIN devs[i].features }

\* the group ids that occur in the `groups` of some device
ListedGroupIds(devs) ==
    UNION { { devs[i].groups[k] : k \in 1..Len(devs[i].groups) } :
                i \in 1..Len(devs) }

\* the entity has no valid overlay entry for the key
NoValidOverlay(e, key) ==
    ~(key \in DOMAIN opt_state[e] /\ is_optimistic_state_valid(e))

\* C6: with no valid overlay a group light reads on if and only if at least
\* one device of the snapshot whose `groups` holds the group id has
\* `switchable` status true, also when a device's address differs from its id.
C6_GroupOrSemantics ==
    \A e \in GroupLights :
        NoValidOverlay(e, "switchable")
            => (is_on(e) <=>
                  \E i \in ListingExposing(devices, EntityId(e), "switchable") :
                      devices[i].features["switchable"].status)

\* the sum of the converted brightness of the devices at the positions in S
RECURSIVE SumExternal(_, _)
SumExternal(devs, S) ==
    IF S = {} THEN 0
    ELSE LET i == CHOOSE x \in S : TRUE
         IN  to_external(devs[i].features["dimmable"].status)
               + SumExternal(devs, S \ {i})

\* the internal brightness values of the devices at the positions in S
InternalValues(devs, S) == { devs[i].features["dimmable"].status : i \in S }

\* C7: with no valid overlay a group's brightness is the mean of the converted
\* brightness of all its devices exposing `dimmable`, on or off, and no value
\* when none exposes it; two members at internal 50 and 100 read within one
\* step of the external value of internal 75.
C7_GroupBrightnessMean ==
    \A e \in GroupLights :
        LET D == ListingExposing(devices, EntityId(e), "dimmable")
        IN  NoValidOverlay(e, "brightness")
              => /\ D = {} => brightness(e) = None
                 /\ D # {} => brightness(e)
                                = Some(SumExternal(devices, D) \div Cardinality(D))
                 /\ (Cardinality(D) = 2 /\ InternalValues(devices, D) = {50, 100})
                       => /\ brightness(e) # None
                          /\ brightness(e)[1] - to_external(75) \in -1..1

\* C8: a group's RGB colour and its colour temperature are the converted value
\* of the first device, in list order, of the group that exposes `colorRGB`
\* (`colorKelvin`), whatever later members hold, and no value when none does.
C8_GroupColourFirstMember ==
    \A e \in GroupLights :
        LET R == ListingExposing(devices, EntityId(e), "colorRGB")
            K == ListingExposing(devices, EntityId(e), "colorKelvin")
        IN  /\ R = {} => rgb_color(e) = None
            /\ R # {} => rgb_color(e)
                           = Some(to_rgb(devices[first_match(R)]
                                           .features["colorRGB"].status))
            /\ K = {} => color_temp(e) = None
            /\ K # {} => color_temp(e)
                           = Some(devices[first_match(K)]
                                    .features["colorKelvin"].status)

\* C9: the group map holds exactly one group per group id that occurs in some
\* device's `groups`; the members of a group are the devices listing its id,
\* one record per device in device-list order, and its feature names are the
\* union of the members' feature names.
C9_MembershipAggregation ==
    /\ DOMAIN groups = ListedGroupIds(devices)
    /\ \A g \in DOMAIN groups :
          /\ groups[g].id = g
          /\ Len(groups[g].members) = Cardinality(Listing(devices, g))
          /\ \A k \in 1..Len(groups[g].members) :
                /\ groups[g].members[k].name
                      = devices[NthListing(devices, g, k)].name
                /\ groups[g].members[k].features
                      = devices[NthListing(devices, g, k)].features
          /\ DOMAIN groups[g].features
                = UNION { DOMAIN devices[i].features : i \in Listing(devices, g) }

\* C9 witness: a poll returned three devices, two of them in group 7 with the
\* features {switchable, dimmable} and {switchable}; group 7 has the two
\* members and the feature names {switchable, dimmable}.
C9_Witness ==
    /\ ~fetching
    /\ Len(devices) = 3
    /\ Cardinality(Listing(devices, 7)) = 2
    /\ has_group(groups, 7)
    /\ Len(groups[7].members) = 2
    /\ DOMAIN groups[7].members[1].features = {"switchable", "dimmable"}
    /\ DOMAIN groups[7].members[2].features = {"switchable"}
    /\ DOMAIN groups[7].features = {"switchable", "dimmable"}

\* C10: every group of the group map has at least one member, and a group id
\* that no device of the latest successful poll lists is not in the map.
C10_NoEmptyGroups ==
    /\ \A g \in DOMAIN groups : Len(groups[g].members) >= 1
    /\ \A g \in {7, 8, 9} :
          Listing(devices, g) = {} => ~has_group(groups, g)

\* C10 witness: the latest poll returned a device that lists no group and
\* devices of group 7 only; the map holds group 7 and not group 8.
C10_Witness ==
    /\ ~fetching
    /\ \E i \in 1..Len(devices) : devices[i].groups = << >>
    /\ Listing(devices, 7) # {}
    /\ Listing(devices, 8) = {}
    /\ has_group(groups, 7)
    /\ ~has_group(groups, 8)

(***************************************************************************)
(* Properties of the command path (checked under SpecCmd)                  *)
(***************************************************************************)
\* the control call a step hands to the Remote Client for entity e
Last(q) == q[Len(q)]
CallIssued(e) == Len(pending'[e]) = Len(pending[e]) + 1

\* C11: a turn-on whose only requested change is brightness (with or without
\* a transition), issued to an entity whose on/off read returns on, builds a
\* payload with `dimmable` and without `switchable`; every other turn-on
\* builds a payload with `switchable: true`.  The payload of a call handed to
\* the Remote Client is the payload built.
C11_SwitchableSuppression ==
    [][\A e \in Entities : \A kw \in ColourTurnOnKwargs :
          TurnOn(e, kw) =>
             LET data == turn_on_data(is_on(e), kw)
                 suppressed == /\ DOMAIN kw \ {"transition"} = {"brightness"}
                               /\ is_on(e)
             IN  /\ suppressed => DOMAIN data = {"dimmable"}
                 /\ ~suppressed => /\ "switchable" \in DOMAIN data
                                   /\ data["switchable"] = TRUE
                 /\ CallIssued(e) => Last(pending'[e]).call.data = data]_vars

\* C11 witness: a brightness-only turn-on of an entity that reads on is in
\* flight, its payload holding `dimmable` alone.
C11_Witness ==
    \E e \in Entities :
        /\ pending[e] # << >>
        /\ DOMAIN pending[e][1].call.data = {"dimmable"}
        /\ is_on(e)

(***************************************************************************)
(* Properties of the refresh cycle (checked under SpecSvc)                 *)
(***************************************************************************)
(* Specification of the device scan: the entities are the ones             *)
(* async_setup_entry created from the first refresh, and scans and polls   *)
(* bring device lists with further devices                                 *)
(***************************************************************************)
\* the lights async_setup_entry creates from a snapshot: one per device
\* with "id" and "features", one per group with members; it runs once, and
\* nothing else calls async_add_entities
setup_entities(devs, grps) ==
    { <<"device", devs[i].id>> : i \in 1..Len(devs) }
    \cup { <<"group", g>> : g \in { h \in DOMAIN grps : grps[h].members # << >> } }

\* every light a snapshot of the polled lists can call for
ListedEntities ==
    UNION { setup_entities(l, extract_groups_from_devices(l)) : l \in PollLists }

\* the first refresh listed exactly the devices and groups of the entities
ScanInit ==
    /\ now = StartTime
    /\ devices \in { l \in PollLists :
                       setup_entities(l, extract_groups_from_devices(l)) = Entities }
    /\ groups = extract_groups_from_devices(devices)
    /\ fetching = FALSE
    /\ opt_state = [e \in Entities |-> EmptyDict]
    /\ opt_ts = [e \in Entities |-> 0]
    /\ pending = [e \in Entities |-> << >>]
    /\ written = [e \in Entities |-> EmptyDict]
    /\ ha_state = [e \in Entities |-> state_of(e)]
    /\ operated = {}
    /\ hass_data = NoEntries
    /\ discovery = NoDiscovery
    /\ last_update_success = TRUE
    /\ svc = << >>
    /\ svc_result = << >>

\* async_scan_devices / async_step_scan up to the await of async_start_scan
ScanDevices(new_installation) ==
    /\ Len(svc) < MaxServiceCalls
    /\ svc' = Append(svc, [op |-> "scan_devices",
                           new_installation |-> new_installation,
                           pc |-> "start_scan"])
    /\ UNCHANGED <<now, devices, groups, fetching, opt_state, opt_ts,
                   ha_state, pending, written,
                   operated, hass_data, discovery, last_update_success,
                   svc_result>>

\* POST /dali/scan returned 200: `await coordinator.async_request_refresh()`
ScanStarted(k) ==
    /\ k \in 1..Len(svc)
    /\ svc[k].pc = "start_scan"
    /\ svc' = RemoveAt(svc, k)
    /\ fetching' = TRUE
    /\ UNCHANGED <<now, devices, groups, opt_state, opt_ts, ha_state,
                   pending, written,
                   operated, hass_data, discovery, last_update_success,
                   svc_result>>

\* POST /dali/scan failed: the `except Exception` branch logs the error
ScanFailed(k) ==
    /\ k \in 1..Len(svc)
    /\ svc[k].pc = "start_scan"
    /\ svc' = RemoveAt(svc, k)
    /\ UNCHANGED <<now, devices, groups, fetching, opt_state, opt_ts,
                   ha_state, pending, written,
                   operated, hass_data, discovery, last_update_success,
                   svc_result>>

\* a fetch in flight ends
FetchEnds ==
    \/ \E fetched \in PollLists : FetchSucceeded(fetched)
    \/ \E notify \in BOOLEAN : FetchFailed(notify)

ScanNext ==
    \/ \E new_installation \in BOOLEAN : ScanDevices(new_installation)
    \/ \E k \in 1..MaxServiceCalls : ScanStarted(k)
    \/ \E k \in 1..MaxServiceCalls : ScanFailed(k)
    \/ ScheduledRefresh
    \/ \E fetched \in PollLists : FetchSucceeded(fetched)
    \/ \E notify \in BOOLEAN : FetchFailed(notify)
    \/ Tick

\* the event loop keeps running: the update interval keeps firing and a
\* request in flight gets its answer or its timeout
SpecScan ==
    /\ ScanInit
    /\ [][ScanNext]_vars
    /\ WF_vars(ScheduledRefresh)
    /\ WF_vars(FetchEnds)
    /\ WF_vars(\E k \in 1..MaxServiceCalls : ScanStarted(k) \/ ScanFailed(k))

(***************************************************************************)
(* Specification of commands on several entities: the device light and    *)
(* the group light of its group are both operated                          *)
(***************************************************************************)
MaxIsoTicks == 1

IsoInit ==
    /\ now = StartTime
    /\ devices \in CmdLists \ { << >> }
    /\ groups = extract_groups_from_devices(devices)
    /\ fetching = FALSE
    /\ opt_state = [e \in Entities |-> EmptyDict]
    /\ opt_ts = [e \in Entities |-> 0]
    /\ pending = [e \in Entities |-> << >>]
    /\ written = [e \in Entities |-> EmptyDict]
    /\ ha_state = [e \in Entities |-> state_of(e)]
    /\ operated = Entities
    /\ hass_data = NoEntries
    /\ discovery = NoDiscovery
    /\ last_update_success = TRUE
    /\ svc = << >>
    /\ svc_result = << >>

\* a second passes, up to MaxIsoTicks seconds after the start
IsoTick == now < StartTime + MaxIsoTicks /\ Tick

IsoNext ==
    \/ \E e \in Entities, kwargs \in TurnOnKwargs : TurnOn(e, kwargs)
    \/ \E e \in Entities, kwargs \in TurnOffKwargs : TurnOff(e, kwargs)
    \/ \E e \in Entities, i \in 1..MaxPending : CommandAccepted(e, i)
    \/ \E e \in Entities, i \in 1..MaxPending : CommandFailed(e, i)
    \/ IsoTick

SpecIso == IsoInit /\ [][IsoNext]_vars

(***************************************************************************)
(* Specification of overlapping commands: an entity is sent a command      *)
(* while the control call of an earlier one is still awaited               *)
(***************************************************************************)
MaxOverlap == 2

\* async_turn_on while at most MaxOverlap - 1 calls of the entity are awaited
OverlappingTurnOn(e, kwargs) ==
    LET current_is_on == is_on(e)
    IN  IssueCommandUpTo(MaxOverlap, e, turn_on_overlay(opt_state[e], kwargs),
                         {"switchable"} \cup (DOMAIN kwargs \cap {"brightness"}),
                         kwargs, turn_on_data(current_is_on, kwargs))

\* async_turn_off while at most MaxOverlap - 1 calls of the entity are awaited
OverlappingTurnOff(e, kwargs) ==
    IssueCommandUpTo(MaxOverlap, e, turn_off_overlay(opt_state[e]),
                     {"switchable"}, kwargs, turn_off_data)

OverlapNext ==
    \/ \E e \in Entities, kwargs \in TurnOnKwargs : OverlappingTurnOn(e, kwargs)
    \/ \E e \in Entities, kwargs \in TurnOffKwargs : OverlappingTurnOff(e, kwargs)
    \/ \E e \in Entities, i \in 1..MaxOverlap : CommandAccepted(e, i)
    \/ \E e \in Entities, i \in 1..MaxOverlap : CommandFailed(e, i)
    \/ IsoTick

SpecOverlap == CmdInit /\ [][OverlapNext]_vars

(***************************************************************************)
(* Specification of the group-membership services running side by side:    *)
(* a service is called while another one awaits the controller, and the    *)
(* controller lists device 1 with a range of group lists                   *)
(***************************************************************************)
MaxConcurrentCalls == 2

MemberPool ==
    { DevN(1, << >>, SwOnly(TRUE)),
      DevN(1, <<7>>, SwOnly(TRUE)),
      DevN(1, <<8, 7>>, SwOnly(TRUE)),
      DevN(2, <<7>>, SwOnly(FALSE)) }

MemberLists == { l \in ListsUpTo(MemberPool, MaxDevices) : UniqueIds(l) }

MemberNext ==
    \/ \E op \in {"add", "remove"}, device_id \in ServiceDeviceIds,
          group_id \in ServiceGroupIds :
          ServiceCallUpTo(MaxConcurrentCalls, op, device_id, group_id)
    \/ \E k \in 1..MaxConcurrentCalls, fetched \in MemberLists :
          ServiceDevicesFetched(k, fetched)
    \/ \E k \in 1..MaxConcurrentCalls : ServiceCallFailed(k)
    \/ \E k \in 1..MaxConcurrentCalls : ServiceUpdateAccepted(k)

SpecMember == SvcInit /\ [][MemberNext]_vars

(***************************************************************************)
(* Specification of the config entries: every entry is set up for a        *)
(* controller of its own and creates the lights of that controller's list  *)
(***************************************************************************)
\* str(n) of a natural number: its decimal digits
RECURSIVE Digits(_)
Digits(n) ==
    LET digit(d) == <<"0", "1", "2", "3", "4", "5", "6", "7", "8", "9">>[d + 1]
    IN  IF n < 10 THEN <<digit(n)>>
        ELSE Append(Digits(n \div 10), digit(n % 10))

\* Dali2IotLight.unique_id: f"dali2_iot_{self._device_id}", and
\* Dali2IotGroupLight.unique_id: f"dali2_iot_group_{self._group_id}"
unique_id(e) ==
    IF e[1] = "device" THEN <<"dali2_iot_">> \o Digits(EntityId(e))
    ELSE <<"dali2_iot_", "group_">> \o Digits(EntityId(e))

\* the devices a controller may list when its entry is set up
EntryPool ==
    { DevN(1, <<7>>, SwOnly(TRUE)),
      DevN(7, <<1, 7>>, SwOnly(FALSE)),
      DevN(17, << >>, SwOnly(TRUE)) }

EntryLists == { l \in ListsUpTo(EntryPool, MaxDevices) : UniqueIds(l) }

\* async_setup_entry of __init__.py and of light.py for config entry n: the
\* first refresh of the entry's coordinator returned `fetched`, the
\* coordinator is stored under the entry id and a light is added per device
\* and per group with members
SetupEntry(n, fetched) ==
    /\ hass_data[n] = None
    /\ hass_data' = [hass_data EXCEPT ![n] = Some(fetched)]
    /\ UNCHANGED <<now, devices, groups, fetching, opt_state, opt_ts,
                   ha_state, pending, written, operated, discovery,
                   last_update_success, svc, svc_result>>

\* async_unload_entry: hass.data[DOMAIN].pop(entry.entry_id), the lights of
\* the entry are removed with its platform
UnloadEntry(n) ==
    /\ hass_data[n] # None
    /\ hass_data' = [hass_data EXCEPT ![n] = None]
    /\ UNCHANGED <<now, devices, groups, fetching, opt_state, opt_ts,
                   ha_state, pending, written, operated, discovery,
                   last_update_success, svc, svc_result>>

\* the lights that exist: the config entry and the entity
EntryLights ==
    UNION { { <<n, e>> :
                e \in setup_entities(hass_data[n][1],
                         extract_groups_from_devices(hass_data[n][1])) } :
            n \in { m \in EntryIds : hass_data[m] # None } }

EntriesNext ==
    \/ \E n \in EntryIds, fetched \in EntryLists : SetupEntry(n, fetched)
    \/ \E n \in EntryIds : UnloadEntry(n)

SpecEntries == SvcInit /\ [][EntriesNext]_vars

(***************************************************************************)
(* discovery.py: the broadcast and the collection of the answers           *)
(***************************************************************************)
\* socket.settimeout(DISCOVERY_TIMEOUT), in seconds
DISCOVERY_TIMEOUT == 5

\* the datagrams a discovery receives and the seconds it is followed for
MaxResponses == 2
MaxElapsed == 7

\* the senders of the datagrams
Hosts == {"192.168.1.20", "192.168.1.21"}

\* what a datagram holds: an object of type "dali-2-iot", an object of
\* another type, bytes that are not JSON (or not UTF-8), JSON that is not
\* an object
ResponseKinds == {"dali-2-iot", "other", "malformed", "not_an_object"}

\* discover up to the first recvfrom: the socket is created, its timeout is
\* set and the broadcast is sent.  A sendto that raises is caught by
\* `except Exception`; `finally` closes the socket and the empty list is
\* returned.
Discover(sent) ==
    /\ discovery.pc \in {"idle", "returned"}
    /\ discovery' = [pc |-> IF sent THEN "receiving" ELSE "returned",
                     socket |-> sent, devices |-> << >>, received |-> 0,
                     waited |-> 0, elapsed |-> 0]
    /\ UNCHANGED <<now, devices, groups, fetching, opt_state, opt_ts,
                   ha_state, pending, written, operated, hass_data,
                   last_update_success, svc, svc_result>>

\* recvfrom returns a datagram before its timeout.  An object of type
\* "dali-2-iot" is appended, an object of another type is logged, bytes that
\* do not decode raise JSONDecodeError / UnicodeDecodeError and `continue`:
\* all three go round the loop to a new recvfrom, whose timeout starts
\* again.  JSON that is not an object has no `get`: the AttributeError
\* leaves the loop through `except Exception`, `finally` closes the socket
\* and the devices collected so far are returned.
ResponseReceived(kind, host) ==
    /\ discovery.pc = "receiving"
    /\ discovery.waited < DISCOVERY_TIMEOUT
    /\ discovery.received < MaxResponses
    /\ discovery' =
          [discovery EXCEPT
              !.received = @ + 1,
              !.waited = 0,
              !.devices = IF kind = "dali-2-iot"
                          THEN Append(@, [host |-> host, name |-> "DALI2 IoT"])
                          ELSE @,
              !.pc = IF kind = "not_an_object" THEN "returned" ELSE @,
              !.socket = IF kind = "not_an_object" THEN FALSE ELSE @]
    /\ UNCHANGED <<now, devices, groups, fetching, opt_state, opt_ts,
                   ha_state, pending, written, operated, hass_data,
                   last_update_success, svc, svc_result>>

\* a second passes while recvfrom blocks
DiscoveryTick ==
    /\ discovery.pc = "receiving"
    /\ discovery.waited < DISCOVERY_TIMEOUT
    /\ discovery.elapsed < MaxElapsed
    /\ discovery' = [discovery EXCEPT !.waited = @ + 1, !.elapsed = @ + 1]
    /\ UNCHANGED <<now, devices, groups, fetching, opt_state, opt_ts,
                   ha_state, pending, written, operated, hass_data,
                   last_update_success, svc, svc_result>>

\* recvfrom raises socket.timeout: `break`, `finally` closes the socket and
\* the devices are returned
RecvTimeout ==
    /\ discovery.pc = "receiving"
    /\ discovery.waited = DISCOVERY_TIMEOUT
    /\ discovery' = [discovery EXCEPT !.pc = "returned", !.socket = FALSE]
    /\ UNCHANGED <<now, devices, groups, fetching, opt_state, opt_ts,
                   ha_state, pending, written, operated, hass_data,
                   last_update_success, svc, svc_result>>

DiscoveryNext ==
    \/ \E sent \in BOOLEAN : Discover(sent)
    \/ \E kind \in ResponseKinds, host \in Hosts : ResponseReceived(kind, host)
    \/ DiscoveryTick
    \/ RecvTimeout

SpecDiscovery == SvcInit /\ [][DiscoveryNext]_vars

(***************************************************************************)
(* The brightness conversions: device 1 reports every whole dim level, and *)
(* an entity is sent back the brightness it reads.                         *)
(***************************************************************************)
\* the dim levels of the device: `# Convert 0-100 to 0-255`
MaxInternal == 100

ConvLists ==
    { <<DevN(1, <<7>>, Full(TRUE, b, <<1, 0, 0>>, 2700))>> : b \in 0..MaxInternal }

ConvInit ==
    /\ now = StartTime
    /\ devices \in ConvLists
    /\ groups = extract_groups_from_devices(devices)
    /\ fetching = FALSE
    /\ opt_state = [e \in Entities |-> EmptyDict]
    /\ opt_ts = [e \in Entities |-> 0]
    /\ pending = [e \in Entities |-> << >>]
    /\ written = [e \in Entities |-> EmptyDict]
    /\ ha_state = [e \in Entities |-> state_of(e)]
    /\ operated \in { {e} : e \in Entities }
    /\ hass_data = NoEntries
    /\ discovery = NoDiscovery
    /\ last_update_success = TRUE
    /\ svc = << >>
    /\ svc_result = << >>

\* light.turn_on with the brightness the entity shows
ResendBrightness(e) ==
    /\ brightness(e) # None
    /\ TurnOn(e, "brightness" :> brightness(e)[1])

ConvNext ==
    \/ \E e \in Entities : ResendBrightness(e)
    \/ \E e \in Entities, i \in 1..MaxPending : CommandAccepted(e, i)
    \/ \E e \in Entities, i \in 1..MaxPending : CommandFailed(e, i)

SpecConv == ConvInit /\ [][ConvNext]_vars

(***************************************************************************)
\* the GET /devices requests in flight: the coordinator's fetch and the
\* fetches of the membership services
FetchesInFlight ==
    (IF fetching THEN 1 ELSE 0)
    + Cardinality({ k \in 1..Len(svc) : svc[k].pc = "get_devices" })

\* C12: at most one device-list fetch is in flight at any time.
C12_SingleFetchInFlight == FetchesInFlight <= 1

\* a fetch of the coordinator ends in this step, with a failure / a success
FetchFails == fetching /\ ~fetching' /\ ~last_update_success'
FetchSucceeds == fetching /\ ~fetching' /\ last_update_success'

\* C13: a failed device-list fetch leaves the device list and the group map
\* exactly as they were, and get_device and get_group answer as before; the
\* successful poll that follows a failure replaces the snapshot with the
\* fetched list.
C13_FailedRefreshPreservesSnapshot ==
    [][/\ FetchFails
            => /\ devices' = devices
               /\ groups' = groups
               /\ \A id \in ServiceDeviceIds \cup {2} :
                     get_device(devices', id) = get_device(devices, id)
               /\ \A g \in ServiceGroupIds :
                     has_group(groups', g) = has_group(groups, g)
       /\ \A fetched \in PollLists :
             (~last_update_success /\ FetchSucceeded(fetched))
                => /\ devices' = fetched
                   /\ groups' = extract_groups_from_devices(fetched)]_vars

\* C13 witness: the latest poll failed and the snapshot still holds the
\* devices and the group of the poll before it.
C13_Witness ==
    /\ ~last_update_success
    /\ ~fetching
    /\ Len(devices) = 2
    /\ has_group(groups, 7)
    /\ Len(groups[7].members) = 2

\* C14: in every state a reader can observe, the group map is the
\* aggregation of the current device list.
C14_SnapshotConsistency == groups = extract_groups_from_devices(devices)

\* C14 witness: a poll returned an empty list after the setup had listed
\* device 1 and group 7; the group map is empty with it.
C14_Witness ==
    /\ ~fetching
    /\ last_update_success
    /\ devices = << >>
    /\ groups = EmptyDict

\* C15: when the listeners run after a successful refresh, the state each
\* of them writes is read from the data of that refresh.
C15_NotifyAfterPublication ==
    [][FetchSucceeds
          => \A e \in Entities :
                ha_state'[e] = published(devices', groups', opt_state'[e],
                                         opt_ts'[e], now', e)]_vars

\* C15 witness: a poll that no longer lists device 1 was published and the
\* listeners of the device light and of the group light have written a state
\* without brightness.
C15_Witness ==
    /\ ~fetching
    /\ get_device(devices, 1) = 0
    /\ \A e \in Entities :
          /\ opt_state[e] = EmptyDict
          /\ ha_state[e] = [is_on |-> FALSE, brightness |-> None]

\* a turn-on or a turn-off of the entity is handled in this step
CommandHandled(e) ==
    \/ \E kw \in ColourTurnOnKwargs : TurnOn(e, kw)
    \/ \E kw \in TurnOffKwargs : TurnOff(e, kw)

\* C16: every turn-on or turn-off of a group light results in exactly one
\* control call, made with async_control_group and addressed to the group
\* id, and in no control call of a device light.
C16_GroupCommandFanOut ==
    [][\A e \in GroupLights :
          CommandHandled(e) =>
             /\ CallIssued(e)
             /\ Last(pending'[e]).call.api = "async_control_group"
             /\ Last(pending'[e]).call.id = EntityId(e)
             /\ \A d \in DeviceLights : pending'[d] = pending[d]]_vars

\* C17: when the control call of a turn-on or turn-off returns, the entity
\* requests a refresh and a fetch is under way without a scheduled tick;
\* when the call fails, at once or after the await, the command requests none.
C17_RefreshAfterAcceptedCommand ==
    [][\A e \in Entities :
          /\ \A i \in 1..MaxPending :
                /\ CommandAccepted(e, i) => fetching'
                /\ CommandFailed(e, i) => fetching' = fetching
          /\ CommandHandled(e) => fetching' = fetching]_vars

\* C17 witness: the command of the operated entity was accepted (its overlay
\* is still held and no call is pending) and a fetch is under way.
C17_Witness ==
    \E e \in operated :
        /\ pending[e] = << >>
        /\ "switchable" \in DOMAIN opt_state[e]
        /\ opt_ts[e] = now
        /\ fetching

\* C18: after a turn-on that sets an RGB colour or a colour temperature and
\* whose control call is made, while the overlay is valid, the RGB read and
\* the colour-temperature read return the commanded value.
C18_OverlayFirstColourRead ==
    [][\A e \in Entities : \A kw \in ColourTurnOnKwargs :
          (TurnOn(e, kw) /\ CallIssued(e) /\ state_valid(opt_ts'[e], now')) =>
             /\ "rgb_color" \in DOMAIN kw =>
                   read_rgb_color(devices', groups', e) = Some(kw["rgb_color"])
             /\ "color_temp_kelvin" \in DOMAIN kw =>
                   read_color_temp(devices', groups', e)
                      = Some(kw["color_temp_kelvin"])]_vars

(***************************************************************************)
(* Properties of the brightness conversions (checked under SpecConv)       *)
(***************************************************************************)
\* the dim level device 1 reports
ReportedLevel == devices[1].features["dimmable"].status

\* C19: the brightness read from a dim level b, written back and read again
\* differs from the first read by at most 1; dim level 0 reads as 0 and dim
\* level 100 reads as 255.
C19_BrightnessRoundTrip ==
    /\ \A e \in Entities : \A i \in 1..Len(pending[e]) :
          LET sent == pending[e][i].call.data
          IN  "dimmable" \in DOMAIN sent =>
                 /\ sent["dimmable"] = to_internal(to_external(ReportedLevel))
                 /\ to_external_written(sent["dimmable"])
                       - to_external(ReportedLevel) \in {-1, 0, 1}
    /\ ReportedLevel = 0 => light_canonical_brightness(devices, 1) = Some(0)
    /\ ReportedLevel = MaxInternal
          => light_canonical_brightness(devices, 1) = Some(255)

(***************************************************************************)
(* Properties of the services (checked under SpecSvc and SpecFade)         *)
(***************************************************************************)
\* C21: add-device-to-group or remove-device-from-group for a device id that
\* the controller's device list does not hold raises an error to the handler
\* that called it, makes no PUT /device/{id}, and leaves the coordinator's
\* devices and groups as they were.
C21_NotFoundHandling ==
    [][\A k \in 1..MaxServiceCalls : \A fetched \in PollLists :
          (/\ ServiceDevicesFetched(k, fetched)
           /\ get_device(fetched, svc[k].device_id) = 0) =>
             /\ svc_result' # << >>
             /\ svc_result'.error # ""
             /\ svc_result'.put = None
             /\ svc_result'.device_id = svc[k].device_id
             /\ svc' = RemoveAt(svc, k)
             /\ devices' = devices
             /\ groups' = groups]_vars

\* C21 witness: a call for device 3 ended with "Device not found" while the
\* coordinator's snapshot lists devices and groups.
C21_Witness ==
    /\ svc_result # << >>
    /\ svc_result.op \in {"add", "remove"}
    /\ svc_result.error = "Device not found"
    /\ svc_result.device_id = 3
    /\ devices # << >>
    /\ has_group(groups, 7)

\* C22: a set_fade_time or set_group_fade_time request whose fade time lies
\* outside 0.0..60.0 seconds is rejected as invalid, makes no Remote Client
\* call, requests no refresh and changes neither the snapshot nor an overlay.
C22_ValidationBeforeNetwork ==
    [][\A op \in FadeOps : \A target_id \in FadeTargets(op) :
       \A fade_time \in FadeTimes :
          (/\ SetFadeTime(op, target_id, fade_time)
           /\ (fade_time < MinFadeTime \/ fade_time > MaxFadeTime)) =>
             /\ svc_result'.error = "Invalid"
             /\ svc_result'.put = None
             /\ UNCHANGED <<devices, groups, opt_state, opt_ts, pending,
                            fetching, svc>>]_vars

\* C22 witness: a request for a fade time of 61 seconds was rejected while
\* the snapshot lists devices.
C22_Witness ==
    /\ svc_result # << >>
    /\ svc_result.op \in FadeOps
    /\ svc_result.fade_time = MaxFadeTime + 1
    /\ svc_result.error = "Invalid"
    /\ devices # << >>

(***************************************************************************)
(* Further properties of the command path (checked under SpecCmd)          *)
(***************************************************************************)
\* C23: a turn-on or turn-off that carries a transition results in exactly
\* one control call for the target with the payload of the command, and
\* the overlay of the command is kept while the call is awaited.
C23_FadeCommandsDelivered ==
    [][\A e \in Entities :
          /\ \A kw \in ColourTurnOnKwargs :
                (TurnOn(e, kw) /\ "transition" \in DOMAIN kw) =>
                   /\ CallIssued(e)
                   /\ Last(pending'[e]).call.id = EntityId(e)
                   /\ Last(pending'[e]).call.data = turn_on_data(is_on(e), kw)
                   /\ opt_state'[e] = turn_on_overlay(opt_state[e], kw)
          /\ \A kw \in TurnOffKwargs :
                (TurnOff(e, kw) /\ "transition" \in DOMAIN kw) =>
                   /\ CallIssued(e)
                   /\ Last(pending'[e]).call.id = EntityId(e)
                   /\ Last(pending'[e]).call.data = turn_off_data
                   /\ opt_state'[e] = turn_off_overlay(opt_state[e])]_vars

(***************************************************************************)
(* Properties of the device scan (checked under SpecScan)                  *)
(***************************************************************************)
\* C24: once the snapshot lists a device or a group with members, a light
\* entity for it eventually exists, also when it was not listed at setup.
C24_NewDevicesAppear ==
    \A x \in ListedEntities :
        (x \in setup_entities(devices, groups)) ~> (x \in Entities)

(***************************************************************************)
(* Further properties of the running integration (checked under Spec)      *)
(***************************************************************************)
\* C25: a failed poll, with or without its listener notification, leaves the
\* state every entity displays as it was: on/off and brightness as last
\* written, and the colour reads.
C25_FailedPollLeavesDisplay ==
    [][FetchFails =>
          \A e \in Entities :
             /\ ha_state'[e] = ha_state[e]
             /\ read_rgb_color(devices', groups', e)
                   = read_rgb_color(devices, groups, e)
             /\ read_color_temp(devices', groups', e)
                   = read_color_temp(devices, groups, e)]_vars

(***************************************************************************)
(* Further properties of the refresh cycle (checked under SpecScan)        *)
(***************************************************************************)
\* C26: after a successful poll the device list is exactly the fetched
\* list: a device the fetched list lacks is not returned by get_device, and
\* every member of every group is the record of a device of the fetched list
\* that lists the group.
C26_WholesaleReplacement ==
    [][\A fetched \in PollLists :
          FetchSucceeded(fetched) =>
             /\ devices' = fetched
             /\ \A i \in 1..Len(devices) :
                   get_device(fetched, devices[i].id) = 0
                      => get_device(devices', devices[i].id) = 0
             /\ \A g \in DOMAIN groups' :
                   \A k \in 1..Len(groups'[g].members) :
                      \E i \in 1..Len(fetched) :
                         /\ groups'[g].members[k].name = fetched[i].name
                         /\ groups'[g].members[k].features = fetched[i].features
                         /\ in_groups(fetched[i].groups, g)]_vars

\* C26 witness: device 1, listed at setup, is missing from the published
\* list; get_device no longer returns it and group 7 has the one member of
\* device 2.
C26_Witness ==
    /\ ~fetching
    /\ last_update_success
    /\ get_device(devices, 1) = 0
    /\ get_device(devices, 2) # 0
    /\ has_group(groups, 7)
    /\ Len(groups[7].members) = 1

\* the snapshot holds neither the device of the device light nor the group
\* of the group light: get_device / get_group return None
Absent(e) ==
    IF e \in DeviceLights THEN get_device(devices, EntityId(e)) = 0
    ELSE ~has_group(groups, EntityId(e))

\* C27: an entity whose device or group is absent from the snapshot and
\* which has no valid overlay does not report off; its brightness and its
\* colour reads report no value.
C27_AbsenceIsUnknown ==
    \A e \in Entities :
        (Absent(e) /\ (opt_state[e] = EmptyDict \/ ~is_optimistic_state_valid(e)))
            => /\ is_on(e) # FALSE
               /\ brightness(e) = None
               /\ rgb_color(e) = None
               /\ color_temp(e) = None

(***************************************************************************)
(* Properties of commands on several entities (checked under SpecIso)      *)
(***************************************************************************)
\* a command of the entity is issued, or its control call returns or fails
CommandStep(e) ==
    \/ \E kw \in TurnOnKwargs : TurnOn(e, kw)
    \/ \E kw \in TurnOffKwargs : TurnOff(e, kw)
    \/ \E i \in 1..MaxPending : CommandAccepted(e, i) \/ CommandFailed(e, i)

\* C28: a command on one entity, accepted or failed, leaves the overlay and
\* the overlay timestamp of every other entity unchanged, a group command
\* that of its member's device light and a device command that of its group
\* light; the snapshot-derived reads of the other entities stay as they were.
C28_OverlayIsolation ==
    [][\A e \in Entities :
          CommandStep(e) =>
             \A o \in Entities \ {e} :
                /\ opt_state'[o] = opt_state[o]
                /\ opt_ts'[o] = opt_ts[o]
                /\ snapshot_is_on(devices', groups', o)
                      = snapshot_is_on(devices, groups, o)
                /\ snapshot_brightness(devices', groups', o)
                      = snapshot_brightness(devices, groups, o)]_vars

\* C28 witness: the device light holds the overlay of a turn-on with
\* brightness, written earlier, while its group light holds the overlay of a
\* later turn-off.
C28_Witness ==
    /\ opt_state[<<"device", 1>>] = [switchable |-> TRUE, brightness |-> 128]
    /\ opt_state[<<"group", 7>>] = [switchable |-> FALSE]
    /\ opt_ts[<<"device", 1>>] < opt_ts[<<"group", 7>>]

(***************************************************************************)
(* Order of the steps of a command (checked under SpecCmd)                 *)
(***************************************************************************)
\* C29: when the control call of a turn-on / turn-off is issued, the overlay
\* holds the commanded on/off value and the state written to the host shows
\* it, and no refresh has been requested by the command; the refresh is
\* requested when the call returns; when the call fails, the state written
\* afterwards is the one read with the overlay cleared.
C29_CommandStepOrdering ==
    [][\A e \in Entities :
          /\ (CommandHandled(e) /\ CallIssued(e)) =>
                /\ "switchable" \in DOMAIN opt_state'[e]
                /\ opt_ts'[e] = now
                /\ ha_state'[e].is_on = opt_state'[e]["switchable"]
                /\ fetching' = fetching
          /\ \A i \in 1..MaxPending :
                /\ CommandAccepted(e, i) =>
                      /\ fetching'
                      /\ Len(pending'[e]) = Len(pending[e]) - 1
                /\ CommandFailed(e, i) =>
                      /\ opt_state'[e] = EmptyDict
                      /\ ha_state'[e].is_on = snapshot_is_on(devices', groups', e)
                      /\ ha_state'[e].brightness
                            = snapshot_brightness(devices', groups', e)]_vars

\* C29 witness: a control call is awaited, the state written shows the
\* commanded on/off value, which the snapshot does not hold, and no fetch
\* has been started.
C29_Witness ==
    \E e \in operated :
        /\ pending[e] # << >>
        /\ "switchable" \in DOMAIN opt_state[e]
        /\ ha_state[e].is_on = opt_state[e]["switchable"]
        /\ ha_state[e].is_on # canonical_is_on(e)
        /\ ~fetching

(***************************************************************************)
(* The payload of a command (checked under SpecCmd)                        *)
(***************************************************************************)
\* the fraction q equals a / b
IsQuotient(q, a, b) == q.num * b = a * q.den

\* C30: the payload of a turn-on call contains `dimmable` iff a brightness
\* was requested, with the value brightness / 2.55, `colorRGB` iff an RGB
\* colour was requested, each channel divided by 255, `colorKelvin` iff a
\* colour temperature was requested, the Kelvin value unchanged, and nothing
\* else besides `switchable`; the payload of a turn-off call is exactly
\* {switchable: false}.
C30_PayloadOnlyRequested ==
    [][\A e \in Entities :
          /\ \A kw \in ColourTurnOnKwargs :
                (TurnOn(e, kw) /\ CallIssued(e)) =>
                   LET data == Last(pending'[e]).call.data
                   IN  /\ DOMAIN data \subseteq
                             {"switchable", "dimmable", "colorRGB", "colorKelvin"}
                       /\ "dimmable" \in DOMAIN data <=> "brightness" \in DOMAIN kw
                       /\ "dimmable" \in DOMAIN data =>
                             IsQuotient(data["dimmable"], kw["brightness"] * 100, 255)
                       /\ "colorRGB" \in DOMAIN data <=> "rgb_color" \in DOMAIN kw
                       /\ "colorRGB" \in DOMAIN data =>
                             /\ IsQuotient(data["colorRGB"].r, kw["rgb_color"][1], 255)
                             /\ IsQuotient(data["colorRGB"].g, kw["rgb_color"][2], 255)
                             /\ IsQuotient(data["colorRGB"].b, kw["rgb_color"][3], 255)
                       /\ "colorKelvin" \in DOMAIN data
                             <=> "color_temp_kelvin" \in DOMAIN kw
                       /\ "colorKelvin" \in DOMAIN data =>
                             data["colorKelvin"] = kw["color_temp_kelvin"]
          /\ \A kw \in TurnOffKwargs :
                (TurnOff(e, kw) /\ CallIssued(e)) =>
                   /\ DOMAIN Last(pending'[e]).call.data = {"switchable"}
                   /\ Last(pending'[e]).call.data["switchable"] = FALSE]_vars

\* C30 witness: the call of a turn-on that requested an RGB colour and
\* nothing else is awaited; its payload holds `switchable` and `colorRGB`.
C30_Witness ==
    \E e \in operated :
        /\ pending[e] # << >>
        /\ DOMAIN pending[e][1].call.data = {"switchable", "colorRGB"}
        /\ IsQuotient(pending[e][1].call.data["colorRGB"].b, RgbArg[3], 255)

(***************************************************************************)
(* Further properties of the aggregation (checked under SpecAgg)           *)
(***************************************************************************)
\* the devices, by position, that list the group and expose the feature
Exposing(devs, g, f) ==
    { i \in Listing(devs, g) : f \in DOMAIN devs[i].features }

\* C31: for every group and feature name, the value the group's `features`
\* holds is that of the first device, in device-list order, that lists the
\* group and exposes the feature.
C31_FirstWriterWins ==
    \A g \in DOMAIN groups :
        \A f \in DOMAIN groups[g].features :
            /\ Exposing(devices, g, f) # {}
            /\ groups[g].features[f]
                  = devices[first_match(Exposing(devices, g, f))].features[f]

\* C31 witness: the first two devices of the list are in group 7 and expose
\* `dimmable` with different values; the group holds the value of the first.
C31_Witness ==
    /\ ~fetching
    /\ Len(devices) >= 2
    /\ {1, 2} \subseteq Exposing(devices, 7, "dimmable")
    /\ devices[1].features["dimmable"] # devices[2].features["dimmable"]
    /\ groups[7].features["dimmable"] = devices[1].features["dimmable"]

(***************************************************************************)
(* Properties of overlapping commands (checked under SpecOverlap)          *)
(***************************************************************************)
\* C33: when the control call of a command fails while the call of a later
\* command of the same entity is awaited, the overlay the later command
\* wrote is still in place after the failure is handled.
C33_LaterOverlaySurvives ==
    [][\A e \in Entities : \A i \in 1..MaxOverlap :
          (CommandFailed(e, i) /\ i < Len(pending[e]))
              => opt_state'[e] = opt_state[e]]_vars

(***************************************************************************)
(* Further properties of the command path (checked under SpecCmd)          *)
(***************************************************************************)
\* C34: a turn-on issued while the snapshot reports the entity off hands the
\* Remote Client a payload with `switchable: true`, whatever the overlay
\* reports and whatever the request changes.
C34_OnWhenReallyOff ==
    [][\A e \in Entities : \A kw \in ColourTurnOnKwargs :
          (TurnOn(e, kw) /\ CallIssued(e) /\ ~canonical_is_on(e)) =>
             LET data == Last(pending'[e]).call.data
             IN  /\ "switchable" \in DOMAIN data
                 /\ data["switchable"] = TRUE]_vars

\* C35: the payload a turn-on builds is never empty, whatever is requested
\* and whatever the entity reads as; a turn-on that leaves an overlay behind
\* has handed a control call to the Remote Client.
C35_TurnOnAlwaysSends ==
    [][\A e \in Entities : \A kw \in ColourTurnOnKwargs :
          TurnOn(e, kw) =>
             /\ turn_on_data(is_on(e), kw) # EmptyDict
             /\ opt_state'[e] # EmptyDict =>
                   /\ CallIssued(e)
                   /\ Last(pending'[e]).call.data # EmptyDict]_vars

\* a plain turn-on of an entity that the snapshot reports on is awaited with
\* `switchable: true` as its whole payload, its overlay in place
C35_Witness ==
    \E e \in operated :
        /\ pending[e] # << >>
        /\ pending[e][1].pre
        /\ pending[e][1].call.data = [switchable |-> TRUE]
        /\ opt_state[e] = [switchable |-> TRUE]

(***************************************************************************)
(* Properties of the membership services (checked under SpecMember)        *)
(***************************************************************************)
\* the group list `list` carries the change that call `c` asked for
Reflects(list, c) == (c.op = "add") = in_groups(list, c.group_id)

\* C36: when the PUT of a membership change is accepted while a change of
\* the same device for another group awaits its own PUT, the group list of
\* that later PUT, which replaces the device's groups on the controller,
\* carries the accepted change too.
C36_NoLostMembershipUpdate ==
    [][\A k, j \in 1..MaxConcurrentCalls :
          (/\ ServiceUpdateAccepted(k)
           /\ j \in 1..Len(svc) /\ j # k
           /\ svc[j].pc = "update_device_groups"
           /\ svc[j].device_id = svc[k].device_id
           /\ svc[j].group_id # svc[k].group_id) =>
             Reflects(svc[j].groups, svc[k])]_vars

\* how often group_id occurs in the list
Occurrences(list, group_id) ==
    Cardinality({ n \in 1..Len(list) : list[n] = group_id })

\* C37: for a device the controller lists, an add to a group it is in and a
\* remove from a group it is not in return successfully without a PUT; an
\* add to a group it is not in PUTs a list that holds the group once and
\* from which removing the group gives the device's list back.
C37_MembershipIdempotentInvertible ==
    [][\A k \in 1..MaxConcurrentCalls : \A fetched \in MemberLists :
          (/\ ServiceDevicesFetched(k, fetched)
           /\ get_device(fetched, svc[k].device_id) # 0) =>
             LET c == svc[k]
                 current == fetched[get_device(fetched, c.device_id)].groups
                 present == in_groups(current, c.group_id)
             IN  /\ (c.op = "add") = present =>
                       /\ svc' = RemoveAt(svc, k)
                       /\ svc_result' # << >>
                       /\ svc_result'.error = ""
                       /\ svc_result'.put = None
                 /\ (c.op = "add" /\ ~present) =>
                       /\ svc'[k].pc = "update_device_groups"
                       /\ Occurrences(svc'[k].groups, c.group_id) = 1
                       /\ without_group(svc'[k].groups, c.group_id) = current
                       /\ \A g \in ServiceGroupIds \ {c.group_id} :
                             Occurrences(svc'[k].groups, g)
                                = Occurrences(current, g)]_vars

\* C37 witness: a remove from a group the device is not in returned without
\* a PUT, and an add of group 8 to a device in group 7 awaits its PUT of
\* the list 7, 8.
C37_Witness ==
    /\ svc_result # << >>
    /\ svc_result.op = "remove"
    /\ svc_result.error = ""
    /\ svc_result.put = None
    /\ \E k \in 1..Len(svc) :
          /\ svc[k].op = "add"
          /\ svc[k].pc = "update_device_groups"
          /\ svc[k].groups = <<7, 8>>

(***************************************************************************)
(* Properties of the entity identifiers (checked under SpecEntries)        *)
(***************************************************************************)
\* C38: any two distinct lights, of one config entry or of two, device
\* lights or group lights, have different unique ids.
C38_UniqueIdsDistinct ==
    \A x, y \in EntryLights : x # y => unique_id(x[2]) # unique_id(y[2])

(***************************************************************************)
(* Properties of the discovery (checked under SpecDiscovery)               *)
(***************************************************************************)
\* C39: a discovery is over once DISCOVERY_TIMEOUT seconds have passed since
\* its broadcast, whatever datagrams arrive in between; when it is over it
\* has returned its list and its socket is closed.
C39_DiscoveryWithinWindow ==
    /\ discovery.pc = "receiving" => discovery.elapsed <= DISCOVERY_TIMEOUT
    /\ discovery.pc = "returned" =>
          /\ ~discovery.socket
          /\ Len(discovery.devices) <= discovery.received

=============================================================================
